---- MODULE Spec2Model ----
(***************************************************************************)
(* Day/Night switcher (src/src/main.ts): the per-camera scheduler          *)
(* (DayNightMixin), the provider with the global settings                  *)
(* (DayNightProvider) and the sun-times cache, as a state machine.         *)
(*                                                                         *)
(* Time.  The code computes with millisecond instants.  The model counts   *)
(* instants in ticks of TickMs milliseconds (one hour); a delay given in   *)
(* milliseconds is armed as Ticks(ms), rounded up, so the 60 s settle      *)
(* delay, the 300 ms debounce and the 0..60 s recompute jitter each take   *)
(* at most one tick and every other delay of the code is exact.  Offsets   *)
(* are kept in minutes, as stored, and are multiples of 60 in the model.   *)
(* Timers fire at their deadlines, in deadline order.                      *)
(*                                                                         *)
(* The resolved retry count (EffectiveConfig.retries) is kept in halves,   *)
(* so that a stored count of 2.5 has a value.                              *)
(*                                                                         *)
(* Values.  Both key-value stores hold strings.  undefined is the absent   *)
(* value; a number that may be absent (number | undefined, Date that may   *)
(* be an Invalid Date) is a set with at most one element.                  *)
(***************************************************************************)
EXTENDS Integers, Sequences, FiniteSets, TLC

\* ------------------------------------------------------------------ bounds
\* The clock of Spec starts at one of StartTimes and runs MaxTicks ticks.
MaxTicks == 3
\* User operations (setting changes, buttons, release) explored per behaviour.
MaxOps == 2
\* The clock of SpecRun (no user operation after the attach) runs from 0.
MaxRunTime == 34

\* the ticks of a run in which settings are changed
MaxConfigTicks == 1

\* the notifications of a run of the debounce, and its length in ms
MaxNotes == 3

MaxBurstClock == 1000

\* the getSunTimesCached calls of a run of the cache
MaxLookups == 4

\* the lookups and the changes of returned Dates that are followed
MaxDateOps == 5

\* ------------------------------------------------------------------- time
\* the instant (in ticks) from which the target answers every request with 2xx
HealthyFrom == 10

TickMs == 60 * 60000
Ticks(ms) == (ms + TickMs - 1) \div TickMs
DayTicks == Ticks(24 * 3600000)
MAX_DELAY_MS == 24 * 3600000
SUN_TIMES_CACHE_LIMIT == 1000

Min(a, b) == IF a < b THEN a ELSE b
Max(a, b) == IF a > b THEN a ELSE b

\* ----------------------------------------------------------------- values
undefined == "<undefined>"

\* The numeric texts of the model and the number each denotes (Number(s)).
Numerals ==
  { <<"", 0>>, <<" ", 0>>, <<"0", 0>>, <<"1", 1>>, <<"2", 2>>, <<"3", 3>>,
    <<"-1", -1>>, <<"100", 100>>, <<"51", 51>>, <<"51.0", 51>>, <<"78", 78>>,
    <<"90", 90>>, <<"95", 95>>, <<"-90", -90>>, <<"180", 180>>, <<"200", 200>>,
    <<"-180", -180>>, <<"720", 720>>, <<"780", 780>>, <<"-720", -720>>,
    <<"-780", -780>>, <<"300", 300>>, <<"2000000000", 2000000000>> }

\* Number(s): {} stands for NaN.
Number(s) == { p[2] : p \in { q \in Numerals : q[1] = s } }

\* String(n) for a number n: its canonical decimal text.
String(x) ==
  CHOOSE s \in { p[1] : p \in Numerals } :
    /\ <<s, x>> \in Numerals
    /\ s \notin {"", " ", "51.0"}

The(opt) == CHOOSE x \in opt : TRUE
OrElse(opt, d) == IF opt = {} THEN d ELSE The(opt)

Inst == {"i1", "i2"}
NoInst == "-"

\* The keys of the per-camera store the scheduler reads or writes.
Keys ==
  { "enabled", "overrideLocationAndTime", "overrideOffsets",
    "sunriseOffsetMins", "sunsetOffsetMins", "latitude", "longitude",
    "syncOnStartup", "day.url", "night.url", "preview", "previewHtml",
    "lastPhase", "timeZone", "use24h", "overrideReliability", "retries",
    "retryBaseDelayMs", "logResponses", "authType", "day.method",
    "night.method" }

\* The keys of the global store ("global." + key).
GlobalKeys ==
  { "latitude", "longitude", "sunriseOffsetMins", "sunsetOffsetMins",
    "syncOnStartup", "timeZone", "use24h", "retries", "retryBaseDelayMs",
    "logResponses" }

VARIABLES
  now,            \* Date.now(), in ticks
  ticks,          \* ticks elapsed since the start
  gstore,         \* DayNightProvider.storage: [GlobalKeys -> string]
  storage,        \* the camera's mixin storage: [Keys -> value]
  life,           \* per instance: "none", "live" (constructed), "released"
  mixinsById,     \* the registry entry of the camera: an instance or NoInst
  getMixinWait,   \* the instance whose getMixin waits in setTimeout(r, 0)
  settingsState,  \* per instance: DayNightMixin.settingsState
  timers,         \* per instance: the pending timers of DayNightMixin.timers
  globalsDebounce,\* per instance: the pending debounce deadline, {} if none
  sunTimesCache,  \* the Map, in insertion order: Seq of [key, value]
  inflight,       \* per instance: the switchPhase calls awaiting invokeAction
  ops,            \* user operations so far
  steady,         \* per instance: 0 not steady, 1 steady since this tick, 2 longer
  fired,          \* <<instance, phase>> invoked by an action timer this tick
  missed,         \* <<instance, phase>> of adjusted instants that passed unfired
  offByPut,       \* per instance: 'enabled' was put to false and not yet to true
  exec,           \* the invokeAction call that is running: doWithRetries and its attempts
  look,           \* the getSunTimesCached calls so far: what the last one did, and
                  \* per key its last access and the times of its insertion
  dates,          \* the Date objects of the lookups that are followed object by object
  stepped,        \* the rescheduleAll call that is followed statement by statement
  accepted,       \* per instance: the phase of its last request answered 2xx, "" if none
  burst,          \* the debounce of notifyGlobalsChanged of one instance, in milliseconds
  ev              \* what the last step did

vars ==
  << now, ticks, gstore, storage, life, mixinsById, getMixinWait,
     settingsState, timers, globalsDebounce, sunTimesCache, inflight, ops,
     steady, fired, missed, offByPut, exec, burst, look, dates, stepped,
     accepted, ev >>

\* ------------------------------------------------------- normaliseSetting
clamp(x, lo, hi) == Min(hi, Max(lo, x))

\* typeof v === 'string' && v.trim() !== '' && !isNaN(Number(v))
Trim(s) == IF s = " " THEN "" ELSE IF s = " post " THEN "post" ELSE s

\* String.prototype.toUpperCase on the method names of the model
toUpperCase(s) ==
  CASE s = "post" -> "POST"
    [] s = "put" -> "PUT"
    [] s = "head" -> "HEAD"
    [] OTHER -> s

\* normaliseSetting, line 67: the methods a setting may name
allowed == {"GET", "POST", "PUT", "PATCH", "DELETE"}

isNumLike(v) == v # undefined /\ Trim(v) # "" /\ Number(v) # {}

GlobalAlias(key) ==
  CASE key = "global.latitude" -> "latitude"
    [] key = "global.longitude" -> "longitude"
    [] key = "global.sunriseOffsetMins" -> "sunriseOffsetMins"
    [] key = "global.sunsetOffsetMins" -> "sunsetOffsetMins"
    [] OTHER -> key

normaliseSetting(key, value) ==
  LET k == GlobalAlias(key) IN
  CASE k = "latitude" ->
         IF isNumLike(value) THEN String(clamp(The(Number(value)), -90, 90)) ELSE value
    [] k = "longitude" ->
         IF isNumLike(value) THEN String(clamp(The(Number(value)), -180, 180)) ELSE value
    [] k \in {"sunriseOffsetMins", "sunsetOffsetMins"} ->
         IF isNumLike(value) THEN String(clamp(The(Number(value)), -720, 720)) ELSE value
    [] k \in {"day.url", "night.url"} ->
         IF value = undefined THEN "" ELSE Trim(value)
    [] k \in {"day.method", "night.method"} ->
         IF toUpperCase(Trim(IF value = undefined THEN "GET" ELSE value)) \in allowed
         THEN toUpperCase(Trim(IF value = undefined THEN "GET" ELSE value))
         ELSE "GET"
    [] OTHER -> value

\* ------------------------------------------------------------- readConfig
\* getBool that reads every flag as its default (sensitivity variant for C18)
getBool_default(st, k, def) == def

getBool(st, k, def) ==
  IF st[k] = "true" THEN TRUE ELSE IF st[k] = "false" THEN FALSE ELSE def

\* DayNightMixin.n: the stored text as a finite number, or undefined
n(st, k) == IF st[k] = "" \/ st[k] = undefined THEN {} ELSE Number(st[k])

gNum(gs, k) == IF gs[k] = undefined \/ gs[k] = "" THEN {} ELSE Number(gs[k])

gBool(gs, k, d) ==
  IF gs[k] = undefined THEN d
  ELSE IF gs[k] = "true" THEN TRUE ELSE IF gs[k] = "false" THEN FALSE ELSE d

\* Number(s) of a retry count, in halves: the count may be no whole number.
NumberHalves(s) == IF s = "2.5" THEN {5} ELSE { 2 * x : x \in Number(s) }

\* DayNightMixin.n and gNum for the retry count, in halves
nHalves(st, k) == IF st[k] = "" \/ st[k] = undefined THEN {} ELSE NumberHalves(st[k])

gNumHalves(gs, k) == IF gs[k] = undefined \/ gs[k] = "" THEN {} ELSE NumberHalves(gs[k])

\* DayNightMixin.getString(k): the stored text, or undefined
getString(st, k) == st[k]

\* DayNightMixin.getString(k, def): the stored text, or def
getStringOr(st, k, def) == IF st[k] # undefined THEN st[k] ELSE def

\* g('timeZone') || undefined
gString(gs, k) == IF gs[k] = "" THEN undefined ELSE gs[k]

readConfig(st, gs) ==
  LET overrideLoc == getBool(st, "overrideLocationAndTime", FALSE)
      overrideRel == getBool(st, "overrideReliability", FALSE)
      overrideOff == getBool(st, "overrideOffsets", FALSE)
  IN [ enabled |-> getBool(st, "enabled", FALSE),
       latitude |-> IF overrideLoc THEN n(st, "latitude") ELSE gNum(gs, "latitude"),
       longitude |-> IF overrideLoc THEN n(st, "longitude") ELSE gNum(gs, "longitude"),
       timeZone |-> IF overrideLoc THEN getString(st, "timeZone")
                    ELSE gString(gs, "timeZone"),
       use24h |-> IF overrideLoc THEN getBool(st, "use24h", TRUE)
                  ELSE gBool(gs, "use24h", TRUE),
       retries |-> OrElse(IF overrideRel THEN nHalves(st, "retries")
                          ELSE gNumHalves(gs, "retries"), 2),
       retryBaseDelayMs |->
         OrElse(IF overrideRel THEN n(st, "retryBaseDelayMs")
                ELSE gNum(gs, "retryBaseDelayMs"), 0),
       logResponses |-> IF overrideRel THEN getBool(st, "logResponses", FALSE)
                        ELSE gBool(gs, "logResponses", FALSE),
       authType |-> IF st["authType"] \in {undefined, ""} THEN "digest" ELSE st["authType"],
       syncOnStartup |-> IF overrideLoc THEN getBool(st, "syncOnStartup", TRUE)
                         ELSE gBool(gs, "syncOnStartup", TRUE),
       sunriseOffsetMins |->
         OrElse(IF overrideOff THEN n(st, "sunriseOffsetMins")
                ELSE gNum(gs, "sunriseOffsetMins"), 0),
       sunsetOffsetMins |->
         OrElse(IF overrideOff THEN n(st, "sunsetOffsetMins")
                ELSE gNum(gs, "sunsetOffsetMins"), 0),
       day |-> [url |-> st["day.url"],
                method |-> getStringOr(st, "day.method", "GET")],
       night |-> [url |-> st["night.url"],
                  method |-> getStringOr(st, "night.method", "GET")] ]

\* saveToStorage that stores nothing (sensitivity variant for C11)
saveToStorage_skip(ss, key, value) == ss

\* saveToStorage(key, value) on the pair <<settingsState, storage>>
saveToStorage(ss, key, value) ==
  [st |-> [ss.st EXCEPT ![key] = value], stor |-> [ss.stor EXCEPT ![key] = value]]

\* -------------------------------------------------------- sun-times cache
localDayKey(t) == t \div DayTicks

sunKey(lat, lon, t) == <<lat, lon, localDayKey(t)>>

\* SunCalc.getTimes(date, lat, lon), the external solar calculation: sunrise
\* at 07:00 and sunset at 20:00 of the date; beyond the polar circle the sun
\* rises and sets on day 0 only (Invalid Date, {}, from day 1 on).
SunCalcGetTimes(t, lat, lon) ==
  LET d == localDayKey(t) IN
  IF (lat <= 66 /\ lat >= -66) \/ d = 0
  THEN [sunrise |-> {d * DayTicks + 7}, sunset |-> {d * DayTicks + 20}]
  ELSE [sunrise |-> {}, sunset |-> {}]

RemoveAt(s, j) == SubSeq(s, 1, j - 1) \o SubSeq(s, j + 1, Len(s))

\* getSunTimesCached that never evicts (sensitivity variant for C23)
getSunTimesCached_noevict(cache, t, lat, lon) ==
  LET key == sunKey(lat, lon, t)
      hits == { j \in 1..Len(cache) : cache[j].key = key }
  IN IF hits # {}
     THEN [ cache |-> Append(RemoveAt(cache, The(hits)), cache[The(hits)]),
            times |-> cache[The(hits)].value, calls |-> 0, evicted |-> {} ]
     ELSE [ cache |-> Append(cache, [key |-> key, value |-> SunCalcGetTimes(t, lat, lon)]),
            times |-> SunCalcGetTimes(t, lat, lon), calls |-> 1, evicted |-> {} ]

\* getSunTimesCached whose hit leaves the entry where it is
\* (sensitivity variant for C24)
getSunTimesCached_nobump(cache, t, lat, lon) ==
  LET key == sunKey(lat, lon, t)
      hits == { j \in 1..Len(cache) : cache[j].key = key }
      c1 == Append(cache, [key |-> key, value |-> SunCalcGetTimes(t, lat, lon)])
  IN IF hits # {}
     THEN [ cache |-> cache, times |-> cache[The(hits)].value, calls |-> 0,
            evicted |-> {} ]
     ELSE [ cache |-> IF Len(c1) > SUN_TIMES_CACHE_LIMIT THEN Tail(c1) ELSE c1,
            times |-> SunCalcGetTimes(t, lat, lon), calls |-> 1,
            evicted |-> IF Len(c1) > SUN_TIMES_CACHE_LIMIT THEN {c1[1].key} ELSE {} ]

\* getSunTimesCached that asks SunCalc on a hit as well
\* (sensitivity variant for C25)
getSunTimesCached_recompute(cache, t, lat, lon) ==
  LET key == sunKey(lat, lon, t)
      hits == { j \in 1..Len(cache) : cache[j].key = key }
      value == SunCalcGetTimes(t, lat, lon)
      c0 == IF hits # {} THEN RemoveAt(cache, The(hits)) ELSE cache
      c1 == Append(c0, [key |-> key, value |-> value])
  IN [ cache |-> IF Len(c1) > SUN_TIMES_CACHE_LIMIT THEN Tail(c1) ELSE c1,
       times |-> value, calls |-> 1,
       evicted |-> IF Len(c1) > SUN_TIMES_CACHE_LIMIT THEN {c1[1].key} ELSE {} ]

\* getSunTimesCached:
\*   cache    the Map afterwards, in insertion order
\*   times    the copy returned
\*   calls    the calls of SunCalc.getTimes made
\*   evicted  the keys deleted
getSunTimesCached(cache, t, lat, lon) ==
  LET key == sunKey(lat, lon, t)
      hits == { j \in 1..Len(cache) : cache[j].key = key }
  IN IF hits # {}
     THEN LET j == The(hits)
              hit == cache[j].value
          IN [ cache |-> Append(RemoveAt(cache, j), [key |-> key, value |-> hit]),
               times |-> hit, calls |-> 0, evicted |-> {} ]
     ELSE LET value == SunCalcGetTimes(t, lat, lon)
              c1 == Append(cache, [key |-> key, value |-> value])
          IN [ cache |-> IF Len(c1) > SUN_TIMES_CACHE_LIMIT THEN Tail(c1) ELSE c1,
               times |-> value, calls |-> 1,
               evicted |-> IF Len(c1) > SUN_TIMES_CACHE_LIMIT THEN {c1[1].key} ELSE {} ]

\* ------------------------------------------------------------- scheduling
isNum(x) == x # {}

\* dt && !Number.isNaN(dt.getTime()) ? dt : undefined
safeTime(dt) == IF dt = {} THEN {} ELSE dt

applyOffset(dt, mins) == dt + (mins * 60000) \div TickMs

\* clearTimers that cancels nothing (sensitivity variant for C4)
clearTimers_keep(ts) == ts

clearTimers(ts) == << >>

\* scheduleAt with a horizon of one hour, not above the delay of the
\* recompute timer (sensitivity variant for C35)
scheduleAt_clampHour(ts, when, kind, tnow) ==
  IF when - tnow > 0
  THEN Append(ts, [kind |-> kind, at |-> tnow + Min(Ticks(3600000), when - tnow),
                   target |-> when, armed |-> tnow])
  ELSE ts

\* scheduleAt that arms the timer for the whole delay (sensitivity variant
\* for C32)
scheduleAt_unclamped(ts, when, kind, tnow) ==
  IF when - tnow > 0
  THEN Append(ts, [kind |-> kind, at |-> when, target |-> when, armed |-> tnow])
  ELSE ts

\* scheduleAt(when, fn, label): the timers with the new one pushed, if any
scheduleAt(ts, when, kind, tnow) ==
  LET raw == when - tnow
      delay == Min(Ticks(MAX_DELAY_MS), Max(0, raw))
  IN IF delay > 0
     THEN Append(ts, [kind |-> kind, at |-> tnow + delay, target |-> when,
                      armed |-> tnow])
     ELSE ts

\* setTimeout whose timer is never pushed (sensitivity variant for C5)
pushTimeout_drop(ts, kind, ms, tnow) == ts

\* setTimeout(fn, ms) pushed on this.timers
pushTimeout(ts, kind, ms, tnow) ==
  Append(ts, [kind |-> kind, at |-> tnow + Ticks(ms), target |-> tnow + Ticks(ms),
              armed |-> tnow])

\* the next occurrence that keeps today's instant when it is now
\* (sensitivity variant for C2)
nextEvent_nonstrict(today, tomorrowRaw, mins, tnow) ==
  IF today >= tnow THEN today
  ELSE IF tomorrowRaw # {} THEN The(tomorrowRaw) + (mins * 60000) \div TickMs
  ELSE today

\* the next occurrence of one event (rescheduleAll, lines 773-776)
nextEvent(today, tomorrowRaw, mins, tnow) ==
  IF today > tnow THEN today
  ELSE IF tomorrowRaw # {} THEN applyOffset(The(tomorrowRaw), mins)
  ELSE today

\* the expected phase with sunrise itself counted as night
\* (sensitivity variant for C9)
expectedPhase_late(tnow, sunriseRaw, sunsetRaw, sunriseOffset, sunsetOffset) ==
  IF tnow > sunriseRaw + (sunriseOffset * 60000) \div TickMs
     /\ tnow < sunsetRaw + (sunsetOffset * 60000) \div TickMs
  THEN "day" ELSE "night"

\* checkCurrentPhase: the expected phase
expectedPhase(tnow, sunriseRaw, sunsetRaw, sunriseOffset, sunsetOffset) ==
  LET actualSunrise == sunriseRaw + (sunriseOffset * 60000) \div TickMs
      actualSunset == sunsetRaw + (sunsetOffset * 60000) \div TickMs
  IN IF tnow >= actualSunrise /\ tnow < actualSunset THEN "day" ELSE "night"

\* checkCurrentPhase that never switches
\* (sensitivity variant for C10)
checkCurrentPhase_skip(tnow, sunriseRaw, sunsetRaw, sunriseOffset, sunsetOffset, lastPhase) ==
  << >>

\* checkCurrentPhase: the switchPhase calls it makes
checkCurrentPhase(tnow, sunriseRaw, sunsetRaw, sunriseOffset, sunsetOffset, lastPhase) ==
  LET e == expectedPhase(tnow, sunriseRaw, sunsetRaw, sunriseOffset, sunsetOffset)
  IN IF lastPhase # e THEN << e >> ELSE << >>

\* Math.floor(Math.random() * 60_000): the least and the greatest value
Jitters == {0, 59999}

NoRes ==
  [ outcome |-> "none", at |-> 0, c |-> << >>, lastPhase |-> undefined,
    todayRaw |-> << >>, tomorrowRaw |-> << >>,
    nextSunrise |-> {}, nextSunset |-> {}, calls |-> << >> ]

\* what a run of rescheduleAll resolved
Res(outcome, c, st, tnow, todayRaw, tomorrowRaw, nextSunrise, nextSunset, calls) ==
  [ outcome |-> outcome, at |-> tnow, c |-> c, lastPhase |-> st["lastPhase"],
    todayRaw |-> todayRaw, tomorrowRaw |-> tomorrowRaw,
    nextSunrise |-> nextSunrise, nextSunset |-> nextSunset, calls |-> calls ]

\* toLocaleString in the resolved zone: the text of the instant
formatLocal(dt) == "@" \o ToString(dt)

\* formatRelativeShort(when, now)
formatRelativeShort(when, tnow) ==
  IF when < tnow THEN ToString(tnow - when) \o "h ago" ELSE "in " \o ToString(when - tnow) \o "h"

\* the line of the plain preview (rescheduleAll line 790, previewSchedule line 1127)
previewText(nextSunrise, nextSunset) ==
  "Sunrise -> Day: " \o formatLocal(nextSunrise)
    \o " | Sunset -> Night: " \o formatLocal(nextSunset)

\* buildPreviewHtml: what the markup shows
buildPreviewHtml(nextSunrise, nextSunset, tnow, c, st) ==
  "Next switch: " \o (IF nextSunrise < nextSunset THEN "Day" ELSE "Night")
    \o " at " \o formatLocal(Min(nextSunrise, nextSunset))
    \o " (" \o formatRelativeShort(Min(nextSunrise, nextSunset), tnow) \o ")"
    \o " | Sunrise -> Day " \o formatLocal(nextSunrise)
    \o " | Sunset -> Night " \o formatLocal(nextSunset)
    \o " | Location " \o ToString(The(c.latitude)) \o ", " \o ToString(The(c.longitude))
    \o (IF getBool(st, "overrideLocationAndTime", FALSE) THEN " (camera)" ELSE " (global)")
    \o " | Offsets " \o ToString(c.sunriseOffsetMins) \o ", " \o ToString(c.sunsetOffsetMins)
    \o (IF getBool(st, "overrideOffsets", FALSE) THEN " (camera)" ELSE " (global)")

\* saveToStorage('preview', p); saveToStorage('previewHtml', h)
savePreviews(st, stor, p, h) ==
  saveToStorage(saveToStorage([st |-> st, stor |-> stor], "preview", p), "previewHtml", h)

\* rescheduleAll that arms the guard timer whatever 'enabled' is (sensitivity
\* variant for C31)
armRecomputeAndGuard_guardAlways(c, ts, tnow, jitter) ==
  pushTimeout(scheduleAt(clearTimers(ts), tnow + Ticks(3600000 + jitter), "recalc", tnow),
              "guard", 6 * 3600000, tnow)

\* rescheduleAll that arms the recompute timer of an enabled camera only
\* (sensitivity variant for C29)
armRecomputeAndGuard_enabledOnly(c, ts, tnow, jitter) ==
  IF c.enabled
  THEN pushTimeout(scheduleAt(clearTimers(ts), tnow + Ticks(3600000 + jitter), "recalc", tnow),
                   "guard", 6 * 3600000, tnow)
  ELSE clearTimers(ts)

\* rescheduleAll, lines 721-736: clearTimers, the recompute timer, the guard
armRecomputeAndGuard(c, ts, tnow, jitter) ==
  IF c.enabled
  THEN pushTimeout(scheduleAt(clearTimers(ts), tnow + Ticks(3600000 + jitter), "recalc", tnow),
                   "guard", 6 * 3600000, tnow)
  ELSE scheduleAt(clearTimers(ts), tnow + Ticks(3600000 + jitter), "recalc", tnow)

\* the validation without its range check (sensitivity variant for C8)
invalidLocation_norange(c) == c.latitude = {} \/ c.longitude = {}

\* rescheduleAll, lines 744-746
invalidLocation(c) ==
  \/ ~isNum(c.latitude) \/ ~isNum(c.longitude)
  \/ The(c.latitude) < -90 \/ The(c.latitude) > 90
  \/ The(c.longitude) < -180 \/ The(c.longitude) > 180

\* a reschedule whose sync check is left out (sensitivity variant for C12)
syncCheck_never(c, today, st, tnow) == << >>

\* rescheduleAll, lines 807-809: the switchPhase calls of the sync check
syncCheck(c, today, st, tnow) ==
  IF c.syncOnStartup
  THEN checkCurrentPhase(tnow, The(safeTime(today.sunrise)), The(safeTime(today.sunset)),
                         c.sunriseOffsetMins, c.sunsetOffsetMins, st["lastPhase"])
  ELSE << >>

\* rescheduleAll, lines 778-809, with the next instants resolved
rescheduleArm(c, today, tomorrow, nextSunrise, nextSunset, ts, st, stor, tnow, jitter) ==
  [ timers |-> scheduleAt(scheduleAt(armRecomputeAndGuard(c, ts, tnow, jitter),
                                     nextSunrise, "sunrise", tnow),
                          nextSunset, "sunset", tnow),
    cache |-> tomorrow.cache,
    ss |-> savePreviews(st, stor, previewText(nextSunrise, nextSunset),
                        buildPreviewHtml(nextSunrise, nextSunset, tnow, c, st)),
    res |-> Res("scheduled", c, st, tnow, today.times, tomorrow.times,
                {nextSunrise}, {nextSunset}, syncCheck(c, today.times, st, tnow)) ]

\* rescheduleAll, lines 764-776, with both days' raw times looked up
rescheduleNext(c, today, tomorrow, ts, st, stor, tnow, jitter) ==
  rescheduleArm(c, today, tomorrow,
    nextEvent(applyOffset(The(safeTime(today.times.sunrise)), c.sunriseOffsetMins),
              safeTime(tomorrow.times.sunrise), c.sunriseOffsetMins, tnow),
    nextEvent(applyOffset(The(safeTime(today.times.sunset)), c.sunsetOffsetMins),
              safeTime(tomorrow.times.sunset), c.sunsetOffsetMins, tnow),
    ts, st, stor, tnow, jitter)

\* rescheduleAll, lines 753-769, with today's raw times looked up
rescheduleToday(c, today, ts, st, stor, tnow, jitter) ==
  IF safeTime(today.times.sunrise) = {} \/ safeTime(today.times.sunset) = {}
  THEN [ timers |-> armRecomputeAndGuard(c, ts, tnow, jitter),
         cache |-> today.cache,
         ss |-> savePreviews(st, stor, "No sunrise/sunset today at this location",
                             "No sunrise/sunset at this location today."),
         res |-> Res("error-noevent", c, st, tnow, today.times, << >>, {}, {}, << >>) ]
  ELSE rescheduleNext(c, today,
         getSunTimesCached(today.cache, tnow + DayTicks, The(c.latitude), The(c.longitude)),
         ts, st, stor, tnow, jitter)

\* rescheduleAll, lines 721-753, with the configuration read
rescheduleConfig(c, ts, st, stor, cache, tnow, jitter) ==
  IF ~c.enabled
  THEN [ timers |-> armRecomputeAndGuard(c, ts, tnow, jitter),
         cache |-> cache,
         ss |-> saveToStorage([st |-> st, stor |-> stor], "previewHtml",
                              "Switching is disabled."),
         res |-> Res("disabled", c, st, tnow, << >>, << >>, {}, {}, << >>) ]
  ELSE IF invalidLocation(c)
  THEN [ timers |-> armRecomputeAndGuard(c, ts, tnow, jitter),
         cache |-> cache,
         ss |-> savePreviews(st, stor, "Invalid latitude/longitude",
                             "Location not configured (lat/long)."),
         res |-> Res("error-location", c, st, tnow, << >>, << >>, {}, {}, << >>) ]
  ELSE rescheduleToday(c,
         getSunTimesCached(cache, tnow, The(c.latitude), The(c.longitude)),
         ts, st, stor, tnow, jitter)

\* rescheduleAll, run at tnow by an instance with pending timers ts and
\* settings st, with the drawn jitter:
\*   timers  this.timers afterwards (the pending ones)
\*   ss      settingsState and storage afterwards
\*   cache   sunTimesCache afterwards
\*   res     what it resolved; res.calls are the switchPhase calls of the sync check
rescheduleAll(ts, st, stor, cache, gs, tnow, jitter) ==
  rescheduleConfig(readConfig(st, gs), ts, st, stor, cache, tnow, jitter)

\* switchPhase that does nothing while the camera is disabled (sensitivity
\* variant for C26)
switchPhase_ifenabled(q, st, gs, phase, src) ==
  IF st["enabled"] = "true" THEN Append(q, [phase |-> phase, src |-> src]) ELSE q

\* switchPhase without the URL check of invokeAction (sensitivity variant for C17)
switchPhase_nocheck(q, st, gs, phase, src) == Append(q, [phase |-> phase, src |-> src])

\* switchPhase(phase) up to its first await: invokeAction throws at once when
\* the URL of the phase is not configured, otherwise the call is in flight.
switchPhase(q, st, gs, phase, src) ==
  LET c == readConfig(st, gs)
      action == IF phase = "day" THEN c.day ELSE c.night
  IN IF action.url = "" \/ action.url = undefined
     THEN q
     ELSE Append(q, [phase |-> phase, src |-> src])

\* the switchPhase calls of a reschedule's sync check, started
syncCalls(q, st, gs, calls) ==
  IF calls = << >> THEN q ELSE switchPhase(q, st, gs, calls[1], "sync")

Invoked(calls, src) == [ j \in 1..Len(calls) |-> [phase |-> calls[j], src |-> src] ]

Ev(op, i, kind, invoked, res) ==
  [op |-> op, i |-> i, kind |-> kind, invoked |-> invoked, res |-> res]

\* loadSettingsFromStorage: the stored values, then the defaults
loadSettingsFromStorage(stor) ==
  LET defaults ==
        [ k \in Keys |->
            CASE k \in {"enabled", "overrideLocationAndTime", "overrideOffsets",
                        "overrideReliability"} -> "false"
              [] k \in {"use24h"} -> "true"
              [] k = "authType" -> "digest"
              [] k \in {"day.method", "night.method"} -> "GET"
              [] k \in {"sunriseOffsetMins", "sunsetOffsetMins"} -> "0"
              [] k = "syncOnStartup" -> "true"
              [] k = "preview" -> "-"
              [] k = "previewHtml" -> "Click Preview schedule."
              [] OTHER -> undefined ]
  IN [ k \in Keys |-> IF stor[k] # undefined THEN stor[k] ELSE defaults[k] ]

\* ---------------------------------------------------------------- actions
\* the keys whose change reschedules (putMixinSetting, lines 501-507)
ReschedKeys ==
  { "enabled", "overrideLocationAndTime", "overrideOffsets", "latitude",
    "longitude", "syncOnStartup", "sunriseOffsetMins", "sunsetOffsetMins" }

\* the settings a user submits for the camera
MixinPuts ==
  { <<"enabled", "true">>, <<"enabled", "false">>,
    <<"sunsetOffsetMins", "780">>, <<"day.url", " ">> }

\* the settings a user submits to the provider
GlobalPuts ==
  { <<"global.latitude", "">>,
    <<"global.sunriseOffsetMins", "-780">>,
    <<"latitude", "51">> }

\* No timer is due: timers fire at their deadlines, so whatever else happens
\* in a tick happens after the timers due at its start have fired.
NoneDue ==
  \A i \in Inst :
    /\ \A k \in 1..Len(timers[i]) : timers[i][k].at > now
    /\ globalsDebounce[i] # {} => The(globalsDebounce[i]) > now

\* An action timer of instance i is due.  The action instants are whole
\* ticks and every other delay is rounded up to whole ticks, so of the timers
\* due in one tick the action timers have the earliest deadlines and fire first.
ActionDue(i) ==
  \E k \in 1..Len(timers[i]) :
    timers[i][k].kind \in {"sunrise", "sunset"} /\ timers[i][k].at <= now

\* a user operation is explored: within the budget, between timer firings
UserOp == ops < MaxOps /\ NoneDue

Steadied(i, res) ==
  [steady EXCEPT ![i] = IF res.outcome = "scheduled" THEN Max(@, 1) ELSE 0]

Unsteady(i) == [steady EXCEPT ![i] = 0]

\* getMixin: new DayNightMixin(...), the defensive release of the previous
\* instance, and (when nothing was released) mixinsById.set
GetMixin(i) ==
  /\ life[i] = "none"
  /\ getMixinWait = NoInst
  /\ i = "i2" => life["i1"] # "none" /\ UserOp
  /\ \E jitter \in Jitters :
     \E loaded \in {loadSettingsFromStorage(storage)} :
     \E R \in {rescheduleAll(<< >>, loaded, storage, sunTimesCache, gstore, now, jitter)} :
       LET run == loaded["enabled"] = "true"
           prev == mixinsById
       IN /\ settingsState' = [settingsState EXCEPT ![i] = IF run THEN R.ss.st ELSE loaded]
          /\ storage' = IF run THEN R.ss.stor ELSE storage
          /\ sunTimesCache' = IF run THEN R.cache ELSE sunTimesCache
          /\ timers' = [ j \in Inst |->
                           IF j = i THEN (IF run THEN R.timers ELSE << >>)
                           ELSE IF j = prev THEN clearTimers(timers[j])
                           ELSE timers[j] ]
          /\ inflight' = [inflight EXCEPT ![i] =
                            IF run THEN syncCalls(@, R.ss.st, gstore, R.res.calls) ELSE @]
          /\ life' = [ j \in Inst |->
                         IF j = i THEN "live" ELSE IF j = prev THEN "released" ELSE life[j] ]
          /\ mixinsById' = IF prev = NoInst THEN i ELSE mixinsById
          /\ getMixinWait' = IF prev = NoInst THEN NoInst ELSE i
          /\ steady' = [ j \in Inst |->
                           IF j = i THEN (IF run /\ R.res.outcome = "scheduled" THEN 1 ELSE 0)
                           ELSE IF j = prev THEN 0 ELSE steady[j] ]
          /\ ev' = Ev("getMixin", i, "", IF run THEN Invoked(R.res.calls, "sync") ELSE << >>,
                      IF run THEN R.res ELSE NoRes)
  /\ ops' = IF i = "i2" THEN ops + 1 ELSE ops
  /\ UNCHANGED << accepted, stepped, dates, look, burst, exec, now, ticks, gstore, globalsDebounce, fired, missed, offByPut >>

\* getMixin after its setTimeout(r, 0): mixinsById.set(key, mixin)
GetMixinResume ==
  /\ getMixinWait # NoInst
  /\ mixinsById' = getMixinWait
  /\ getMixinWait' = NoInst
  /\ ev' = Ev("getMixinResume", getMixinWait, "", << >>, NoRes)
  /\ UNCHANGED << accepted, stepped, dates, look, burst, exec, now, ticks, gstore, storage, life, settingsState, timers,
                  globalsDebounce, sunTimesCache, inflight, ops, steady, fired,
                  missed, offByPut >>

\* releaseMixin: inst.release() and mixinsById.delete(key)
ReleaseMixin ==
  /\ UserOp
  /\ mixinsById # NoInst
  /\ LET i == mixinsById
     IN /\ timers' = [timers EXCEPT ![i] = clearTimers(@)]
        /\ life' = [life EXCEPT ![i] = "released"]
        /\ steady' = Unsteady(i)
        /\ ev' = Ev("releaseMixin", i, "", << >>, NoRes)
  /\ mixinsById' = NoInst
  /\ ops' = ops + 1
  /\ UNCHANGED << accepted, stepped, dates, look, burst, exec, now, ticks, gstore, storage, getMixinWait, settingsState,
                  globalsDebounce, sunTimesCache, inflight, fired, missed, offByPut >>

\* putMixinSetting(key, value) for a stored setting
PutMixinSetting(key, value) ==
  /\ UserOp
  /\ mixinsById # NoInst
  /\ \E jitter \in Jitters :
     \E i \in {mixinsById} :
     \E v \in {normaliseSetting(key, value)} :
     \E ss1 \in {saveToStorage([st |-> settingsState[i], stor |-> storage], key, v)} :
     \E R \in {rescheduleAll(timers[i], ss1.st, ss1.stor, sunTimesCache, gstore, now, jitter)} :
       LET isEnabling == key = "enabled" /\ v = "true"
           isEnabled == ss1.st["enabled"] = "true"
           resched == key \in ReschedKeys /\ (isEnabling \/ (key # "enabled" /\ isEnabled))
           disabling == key \in ReschedKeys /\ ~resched /\ key = "enabled" /\ v = "false"
           ssOff == saveToStorage(saveToStorage(ss1, "preview", "Switching is disabled"),
                                  "previewHtml", "Switching is disabled.")
           ss2 == IF resched THEN R.ss ELSE IF disabling THEN ssOff ELSE ss1
       IN /\ settingsState' = [settingsState EXCEPT ![i] = ss2.st]
          /\ storage' = ss2.stor
          /\ timers' = [timers EXCEPT ![i] =
                          IF resched THEN R.timers
                          ELSE IF disabling THEN clearTimers(@) ELSE @]
          /\ sunTimesCache' = IF resched THEN R.cache ELSE sunTimesCache
          /\ inflight' = [inflight EXCEPT ![i] =
                            IF resched THEN syncCalls(@, R.ss.st, gstore, R.res.calls) ELSE @]
          /\ steady' = [steady EXCEPT ![i] =
                          IF resched /\ R.res.outcome = "scheduled" THEN 1 ELSE 0]
          /\ offByPut' = [offByPut EXCEPT ![i] =
                            IF key = "enabled" THEN v = "false" ELSE @]
          /\ ev' = Ev("putMixinSetting", i, key,
                      IF resched THEN Invoked(R.res.calls, "sync") ELSE << >>,
                      IF resched THEN R.res ELSE NoRes)
  /\ ops' = ops + 1
  /\ UNCHANGED << accepted, stepped, dates, look, burst, exec, now, ticks, gstore, life, mixinsById, getMixinWait,
                  globalsDebounce, fired, missed >>

\* previewSchedule, lines 1120-1140, with the next instants resolved
previewNext(c, tomorrow, nextSunrise, nextSunset, st, stor, tnow) ==
  [ cache |-> tomorrow.cache,
    ss |-> savePreviews(st, stor, previewText(nextSunrise, nextSunset),
                        buildPreviewHtml(nextSunrise, nextSunset, tnow, c, st)) ]

\* previewSchedule, lines 1111-1125, with both days' raw times looked up
previewTomorrow(c, today, tomorrow, st, stor, tnow) ==
  previewNext(c, tomorrow,
    nextEvent(applyOffset(The(safeTime(today.times.sunrise)), c.sunriseOffsetMins),
              safeTime(tomorrow.times.sunrise), c.sunriseOffsetMins, tnow),
    nextEvent(applyOffset(The(safeTime(today.times.sunset)), c.sunsetOffsetMins),
              safeTime(tomorrow.times.sunset), c.sunsetOffsetMins, tnow),
    st, stor, tnow)

\* previewSchedule, lines 1102-1118, with today's raw times looked up
previewToday(c, today, st, stor, tnow) ==
  IF safeTime(today.times.sunrise) = {} \/ safeTime(today.times.sunset) = {}
  THEN [ cache |-> today.cache,
         ss |-> savePreviews(st, stor, "No sunrise/sunset today at this location",
                             "No sunrise/sunset at this location today.") ]
  ELSE previewTomorrow(c, today,
         getSunTimesCached(today.cache, tnow + DayTicks, The(c.latitude), The(c.longitude)),
         st, stor, tnow)

\* previewSchedule, lines 1088-1102, with the configuration read
previewConfig(c, st, stor, cache, tnow) ==
  IF ~c.enabled
  THEN [ cache |-> cache,
         ss |-> savePreviews(st, stor, "Switching is disabled", "Switching is disabled.") ]
  ELSE IF ~isNum(c.latitude) \/ ~isNum(c.longitude)
  THEN [ cache |-> cache,
         ss |-> savePreviews(st, stor, "Latitude/Longitude not set",
                             "Location not configured (lat/long).") ]
  ELSE previewToday(c, getSunTimesCached(cache, tnow, The(c.latitude), The(c.longitude)),
                    st, stor, tnow)

\* previewSchedule that also records a phase (sensitivity variant for C27)
previewSchedule_marks(st, stor, cache, gs, tnow) ==
  [ cache |-> previewConfig(readConfig(st, gs), st, stor, cache, tnow).cache,
    ss |-> saveToStorage(previewConfig(readConfig(st, gs), st, stor, cache, tnow).ss,
                         "lastPhase", "day") ]

\* previewSchedule: [ss, cache] afterwards
previewSchedule(st, stor, cache, gs, tnow) ==
  previewConfig(readConfig(st, gs), st, stor, cache, tnow)

\* putMixinSetting('__btn_preview')
ButtonPreview ==
  /\ UserOp
  /\ mixinsById # NoInst
  /\ \E i \in {mixinsById} :
     \E P \in {previewSchedule(settingsState[i], storage, sunTimesCache, gstore, now)} :
        /\ settingsState' = [settingsState EXCEPT ![i] = P.ss.st]
        /\ storage' = P.ss.stor
        /\ sunTimesCache' = P.cache
        /\ ev' = Ev("button", i, "__btn_preview", << >>, NoRes)
  /\ ops' = ops + 1
  /\ UNCHANGED << accepted, stepped, dates, look, burst, exec, now, ticks, gstore, life, mixinsById, getMixinWait, timers,
                  globalsDebounce, inflight, steady, fired, missed, offByPut >>

\* putMixinSetting('__btn_day' | '__btn_night')
ButtonSwitch(phase) ==
  /\ UserOp
  /\ mixinsById # NoInst
  /\ LET i == mixinsById
     IN /\ inflight' = [inflight EXCEPT ![i] =
                          switchPhase(@, settingsState[i], gstore, phase, "manual")]
        /\ ev' = Ev("button", i, IF phase = "day" THEN "__btn_day" ELSE "__btn_night",
                    << [phase |-> phase, src |-> "manual"] >>, NoRes)
  /\ ops' = ops + 1
  /\ UNCHANGED << accepted, stepped, dates, look, burst, exec, now, ticks, gstore, storage, life, mixinsById, getMixinWait,
                  settingsState, timers, globalsDebounce, sunTimesCache, steady,
                  fired, missed, offByPut >>

\* the notification that arms no timer (sensitivity variant for C21)
notifyGlobalsChanged_none(deb, tnow) == {}

\* notifyGlobalsChanged: clearTimeout(this.globalsDebounce); setTimeout(..., 300)
notifyGlobalsChanged(deb, tnow) == {tnow + Ticks(300)}

IsGlobalKey(key) ==
  key \in { "global.latitude", "global.longitude", "global.sunriseOffsetMins",
            "global.sunsetOffsetMins", "global.syncOnStartup", "global.timeZone",
            "global.use24h", "global.retries", "global.retryBaseDelayMs",
            "global.logResponses" }

StoreKey(key) ==
  CASE key = "global.latitude" -> "latitude"
    [] key = "global.longitude" -> "longitude"
    [] key = "global.sunriseOffsetMins" -> "sunriseOffsetMins"
    [] key = "global.sunsetOffsetMins" -> "sunsetOffsetMins"
    [] key = "global.syncOnStartup" -> "syncOnStartup"
    [] key = "global.timeZone" -> "timeZone"
    [] key = "global.use24h" -> "use24h"
    [] key = "global.retries" -> "retries"
    [] key = "global.retryBaseDelayMs" -> "retryBaseDelayMs"
    [] key = "global.logResponses" -> "logResponses"

\* DayNightProvider.putSetting(key, value)
PutSetting(key, value) ==
  /\ UserOp
  /\ IF ~IsGlobalKey(key)
     THEN UNCHANGED << gstore, globalsDebounce, steady >>
     ELSE /\ gstore' = [gstore EXCEPT ![StoreKey(key)] = normaliseSetting(key, value)]
          /\ globalsDebounce' =
               [ j \in Inst |->
                   IF j = mixinsById THEN notifyGlobalsChanged(globalsDebounce[j], now)
                   ELSE globalsDebounce[j] ]
          /\ steady' = [ j \in Inst |-> 0 ]
  /\ ev' = Ev("putSetting", NoInst, key, << >>, NoRes)
  /\ ops' = ops + 1
  /\ UNCHANGED << accepted, stepped, dates, look, burst, exec, now, ticks, storage, life, mixinsById, getMixinWait,
                  settingsState, timers, sunTimesCache, inflight, fired, missed,
                  offByPut >>

\* the debounce timer of notifyGlobalsChanged fires: rescheduleAll()
DebounceFire(i) ==
  /\ globalsDebounce[i] # {}
  /\ The(globalsDebounce[i]) <= now
  /\ ~ActionDue(i)
  /\ \E jitter \in Jitters :
     \E R \in {rescheduleAll(timers[i], settingsState[i], storage, sunTimesCache,
                              gstore, now, jitter)} :
          /\ settingsState' = [settingsState EXCEPT ![i] = R.ss.st]
          /\ storage' = R.ss.stor
          /\ sunTimesCache' = R.cache
          /\ timers' = [timers EXCEPT ![i] = R.timers]
          /\ inflight' = [inflight EXCEPT ![i] = syncCalls(@, R.ss.st, gstore, R.res.calls)]
          /\ steady' = Steadied(i, R.res)
          /\ ev' = Ev("debounce", i, "", Invoked(R.res.calls, "sync"), R.res)
  /\ globalsDebounce' = [globalsDebounce EXCEPT ![i] = {}]
  /\ UNCHANGED << accepted, stepped, dates, look, burst, exec, now, ticks, gstore, life, mixinsById, getMixinWait, ops, fired,
                  missed, offByPut >>

PhaseOf(kind) == IF kind = "sunrise" THEN "day" ELSE "night"

\* a pending timer of this.timers fires and its callback runs
TimerFire(i, k) ==
  /\ k \in 1..Len(timers[i])
  /\ timers[i][k].at <= now
  /\ timers[i][k].kind \in {"sunrise", "sunset"} \/ ~ActionDue(i)
  /\ LET t == timers[i][k]
         rest == RemoveAt(timers[i], k)
     IN IF t.kind \in {"sunrise", "sunset"}
        THEN \* switchPhase(phase); setTimeout(() => this.rescheduleAll(), 60_000)
             /\ inflight' = [inflight EXCEPT ![i] =
                               switchPhase(@, settingsState[i], gstore, PhaseOf(t.kind), "timer")]
             /\ timers' = [timers EXCEPT ![i] = pushTimeout(rest, "settle", 60000, now)]
             /\ fired' = fired \cup {<<i, PhaseOf(t.kind)>>}
             /\ ev' = Ev("timer", i, t.kind,
                         << [phase |-> PhaseOf(t.kind), src |-> "timer"] >>, NoRes)
             /\ UNCHANGED << settingsState, storage, sunTimesCache, steady >>
        ELSE \* recalc: sunTimesCache.clear(); then, as guard and settle: rescheduleAll()
             \E jitter \in Jitters :
             \E R \in {rescheduleAll(rest, settingsState[i], storage,
                                     IF t.kind = "recalc" THEN << >> ELSE sunTimesCache,
                                     gstore, now, jitter)} :
                  /\ settingsState' = [settingsState EXCEPT ![i] = R.ss.st]
                  /\ storage' = R.ss.stor
                  /\ sunTimesCache' = R.cache
                  /\ timers' = [timers EXCEPT ![i] = R.timers]
                  /\ inflight' = [inflight EXCEPT ![i] =
                                    syncCalls(@, R.ss.st, gstore, R.res.calls)]
                  /\ steady' = Steadied(i, R.res)
                  /\ ev' = Ev("timer", i, t.kind, Invoked(R.res.calls, "sync"), R.res)
                  /\ UNCHANGED fired
  /\ UNCHANGED << accepted, stepped, dates, look, burst, exec, now, ticks, gstore, life, mixinsById, getMixinWait,
                  globalsDebounce, ops, missed, offByPut >>

\* switchPhase after `await this.invokeAction(phase)` of the call inflight[i][k]:
\* with overall success (ok) it saves 'lastPhase'; otherwise it logs the failure
switchPhaseEnd(i, k, ok) ==
  /\ k \in 1..Len(inflight[i])
  /\ \E call \in {inflight[i][k]} :
     \E ss \in { IF ok
                 THEN saveToStorage([st |-> settingsState[i], stor |-> storage],
                                    "lastPhase", call.phase)
                 ELSE [st |-> settingsState[i], stor |-> storage] } :
        /\ settingsState' = [settingsState EXCEPT ![i] = ss.st]
        /\ storage' = ss.stor
        /\ ev' = Ev(IF ok THEN "switched" ELSE "failed", i, call.src,
                    << call >>, NoRes)
  /\ inflight' = [inflight EXCEPT ![i] = RemoveAt(@, k)]
  /\ UNCHANGED << stepped, dates, look, burst, now, ticks, gstore, life, mixinsById, getMixinWait, timers,
                  globalsDebounce, sunTimesCache, ops, steady, fired, missed,
                  offByPut >>

\* invokeAction of a switchPhase call in flight ends, with overall success
\* (ok) or with a failure, its attempts not looked into
Complete(i, k, ok) == switchPhaseEnd(i, k, ok) /\ UNCHANGED << exec, accepted >>

\* ----------------------------------------- the calls of getSunTimesCached
\* no call yet:
\*   count   the calls so far;  at  the clock of accesses
\*   access  per key, the clock of its last access (insertion or hit)
\*   first   per key, the times SunCalc gave when the entry was inserted
\*   last    the last call: its key, whether the key was in the Map, the size
\*           of the Map before, what getSunTimesCached returned, and the
\*           last access of the keys it deleted
\* access and first cover the keys that are in the Map.
NoLook ==
  [ count |-> 0, at |-> 0, access |-> << >>, first |-> << >>,
    last |-> [ key |-> << >>, present |-> FALSE, size |-> 0, times |-> << >>,
               calls |-> 0, evicted |-> {}, evictedAt |-> {} ] ]

\* a Map filled by m lookups, one per day from day 1 on, at latitude 51
FullCache(m) ==
  [ j \in 1..m |-> [ key |-> sunKey(51, 0, j * DayTicks),
                     value |-> SunCalcGetTimes(j * DayTicks, 51, 0) ] ]

\* the record of the lookups that filled cache
LookOf(cache) ==
  [ NoLook EXCEPT !.at = Len(cache),
                  !.access = [ j \in 1..Len(cache) |-> [key |-> cache[j].key, at |-> j] ],
                  !.first = cache ]

\* the days looked up
LookupDays == {1, 2, 3, SUN_TIMES_CACHE_LIMIT + 1, SUN_TIMES_CACHE_LIMIT + 2}

LookFrame ==
  UNCHANGED << accepted, stepped, dates, now, ticks, gstore, storage, life, mixinsById, getMixinWait,
               settingsState, timers, globalsDebounce, inflight, ops, steady,
               fired, missed, offByPut, exec, burst, ev >>

\* s without the entries of the keys
Drop(s, keys) ==
  IF keys = {} THEN s
  ELSE IF s # << >> /\ s[1].key \in keys THEN Tail(s)
  ELSE SelectSeq(s, LAMBDA e : e.key \notin keys)

\* s with the entries of key removed and e added
Put(s, key, e) ==
  LET keep == { j \in 1..Len(s) : s[j].key # key }
  IN IF keep = 1..Len(s) THEN Append(s, e)
     ELSE [ j \in 1..Len(s) |-> IF s[j].key = key THEN e ELSE s[j] ]

\* getSunTimesCached(date, lat, lon), called by rescheduleAll or previewSchedule
Lookup(t, lat, lon) ==
  /\ look.count < MaxLookups
  /\ \E r \in {getSunTimesCached(sunTimesCache, t, lat, lon)} :
     \E key \in {sunKey(lat, lon, t)} :
       /\ sunTimesCache' = r.cache
       /\ look' =
            [ count |-> look.count + 1, at |-> look.at + 1,
              access |-> Drop(Put(look.access, key, [key |-> key, at |-> look.at + 1]),
                              r.evicted),
              first |-> Drop(IF r.calls > 0
                             THEN Put(look.first, key, [key |-> key, value |-> r.times])
                             ELSE look.first, r.evicted),
              last |-> [ key |-> key,
                         present |-> \E j \in 1..Len(sunTimesCache) :
                                       sunTimesCache[j].key = key,
                         size |-> Len(sunTimesCache), times |-> r.times,
                         calls |-> r.calls, evicted |-> r.evicted,
                         evictedAt |-> { look.access[j].at :
                                           j \in { x \in 1..Len(look.access) :
                                                     look.access[x].key \in r.evicted } } ] ]
  /\ LookFrame

\* sunTimesCache.clear(), by the recompute timer of any instance
CacheClear ==
  /\ sunTimesCache # << >>
  /\ sunTimesCache' = << >>
  /\ look' = [ look EXCEPT !.access = << >>, !.first = << >>, !.last = NoLook.last ]
  /\ LookFrame

\* ------------------------------------ the Date objects of getSunTimesCached
\* no lookup followed yet:
\*   heap     the Date objects created so far: the instant of each (its index
\*            is its identity)
\*   cached   per key of the Map, the Date objects of its value
\*   held     the Date objects the last lookup returned, the path it took and
\*            the instants they held when it returned
\*   first    per key, the instants SunCalc computed
\*   mutated  the keys and paths of the returned objects a caller has changed
NoDates ==
  [ count |-> 0, heap |-> << >>, cached |-> << >>, held |-> << >>, first |-> << >>,
    mutated |-> {} ]

\* the Date objects SunCalc.getTimes returns
sunCalcDate(heap, instant) == [ heap |-> Append(heap, instant), id |-> Len(heap) + 1 ]

\* new Date(d) that is d itself (sensitivity variant for C33)
newDate_same(heap, id) == [ heap |-> heap, id |-> id ]

\* new Date(d): a new object with the instant of d
newDate(heap, id) == [ heap |-> Append(heap, heap[id]), id |-> Len(heap) + 1 ]

\* the entry of key in a sequence of entries with a key
EntryOf(s, key) == s[CHOOSE j \in 1..Len(s) : s[j].key = key]

HasEntry(s, key) == \E j \in 1..Len(s) : s[j].key = key

\* the offsets a caller applies by setTime, in ticks
MutateOffsets == {-12, 12}

DateFrame ==
  UNCHANGED << accepted, stepped, look, now, ticks, gstore, storage, life, mixinsById, getMixinWait,
               settingsState, timers, globalsDebounce, inflight, ops, steady,
               fired, missed, offByPut, exec, burst, ev >>

\* getSunTimesCached, lines 101-106: the hit path
DateHit(key, r) ==
  \E c \in {EntryOf(dates.cached, key)} :
  \E sunrise \in {newDate(dates.heap, c.sunrise)} :
  \E sunset \in {newDate(sunrise.heap, c.sunset)} :
    dates' = [ dates EXCEPT
                 !.count = @ + 1,
                 !.heap = sunset.heap,
                 !.held = << [ key |-> key, path |-> "hit",
                               sunrise |-> sunrise.id, sunset |-> sunset.id,
                               got |-> [ sunrise |-> sunset.heap[sunrise.id],
                                         sunset |-> sunset.heap[sunset.id] ] ] >> ]

\* getSunTimesCached, lines 108-117: the miss path
DateMiss(key, t, lat, lon) ==
  \E raw \in {SunCalcGetTimes(t, lat, lon)} :
  \E t1 \in {sunCalcDate(dates.heap, raw.sunrise)} :
  \E t2 \in {sunCalcDate(t1.heap, raw.sunset)} :
  \E v1 \in {newDate(t2.heap, t1.id)} :
  \E v2 \in {newDate(v1.heap, t2.id)} :
  \E sunrise \in {newDate(v2.heap, v1.id)} :
  \E sunset \in {newDate(sunrise.heap, v2.id)} :
    dates' = [ dates EXCEPT
                 !.count = @ + 1,
                 !.heap = sunset.heap,
                 !.cached = Append(@, [key |-> key, sunrise |-> v1.id, sunset |-> v2.id]),
                 !.first = Append(@, [key |-> key, value |-> raw]),
                 !.held = << [ key |-> key, path |-> "miss",
                               sunrise |-> sunrise.id, sunset |-> sunset.id,
                               got |-> [ sunrise |-> sunset.heap[sunrise.id],
                                         sunset |-> sunset.heap[sunset.id] ] ] >> ]

\* getSunTimesCached(date, lat, lon), followed object by object
DateLookup(t, lat, lon) ==
  /\ dates.count < MaxDateOps
  /\ \E key \in {sunKey(lat, lon, t)} :
     \E r \in {getSunTimesCached(sunTimesCache, t, lat, lon)} :
       /\ sunTimesCache' = r.cache
       /\ IF HasEntry(dates.cached, key) THEN DateHit(key, r)
          ELSE DateMiss(key, t, lat, lon)
  /\ DateFrame

\* the caller changes a Date it was returned: d.setTime(d.getTime() + offset);
\* the values of the Map are the Date objects dates.cached names
DateMutate(field, offset) ==
  /\ dates.count < MaxDateOps
  /\ dates.held # << >>
  /\ \E h \in {dates.held[1]} :
     \E id \in {IF field = "sunrise" THEN h.sunrise ELSE h.sunset} :
     \E heap \in {[ dates.heap EXCEPT ![id] = { x + offset : x \in @ } ]} :
       /\ dates' = [ dates EXCEPT !.count = @ + 1, !.heap = heap,
                                  !.mutated = @ \cup {<<h.key, h.path>>} ]
       /\ sunTimesCache' =
            [ j \in 1..Len(sunTimesCache) |->
                [ key |-> sunTimesCache[j].key,
                  value |->
                    [ sunrise |-> heap[EntryOf(dates.cached, sunTimesCache[j].key).sunrise],
                      sunset |-> heap[EntryOf(dates.cached, sunTimesCache[j].key).sunset] ] ] ]
  /\ DateFrame

\* --------------------------------- notifyGlobalsChanged, in milliseconds
\* setTimeout(..., 300)
DEBOUNCE_MS == 300

\* the time that passes between two events, in ms
BurstSteps == {100, 299, 300}

\* the notification that leaves a pending timer in place
\* (sensitivity variant for C22)
debounceArm_keep(timer, clock) == IF timer = {} THEN {clock + DEBOUNCE_MS} ELSE timer

\* clearTimeout(this.globalsDebounce); this.globalsDebounce = setTimeout(..., 300):
\* the deadline of the one pending timer
debounceArm(timer, clock) == {clock + DEBOUNCE_MS}

\* no notification yet:
\*   clock     ms since the start;  timer  the deadline of globalsDebounce, {} if none
\*   notified  the instants of the notifyGlobalsChanged calls, in order
\*   ran       the instants at which the callback ran rescheduleAll, in order
NoBurst == [ clock |-> 0, timer |-> {}, notified |-> << >>, ran |-> << >> ]

BurstFrame ==
  UNCHANGED << accepted, stepped, dates, look, now, ticks, gstore, storage, life, mixinsById, getMixinWait,
               settingsState, timers, globalsDebounce, sunTimesCache, inflight,
               ops, steady, fired, missed, offByPut, exec, ev >>

\* notifyGlobalsChanged(); a timer that is due has run before
BurstNotify ==
  /\ Len(burst.notified) < MaxNotes
  /\ \A d \in burst.timer : d > burst.clock
  /\ burst' = [ burst EXCEPT !.timer = debounceArm(@, burst.clock),
                             !.notified = Append(@, burst.clock) ]
  /\ BurstFrame

\* the timer callback runs: this.rescheduleAll()
BurstFire ==
  /\ \E d \in burst.timer : d <= burst.clock
  /\ burst' = [ burst EXCEPT !.timer = {}, !.ran = Append(@, burst.clock) ]
  /\ BurstFrame

\* time passes, up to the deadline of the pending timer
BurstWait(d) ==
  /\ burst.clock + d <= MaxBurstClock
  /\ \A t \in burst.timer : burst.clock + d <= t
  /\ burst' = [ burst EXCEPT !.clock = @ + d ]
  /\ BurstFrame

\* time passes to the deadline of the pending timer
BurstWaitDue ==
  /\ \E t \in burst.timer : t > burst.clock /\ burst' = [ burst EXCEPT !.clock = t ]
  /\ BurstFrame

\* ------------------------------------------- invokeAction and doWithRetries
\* fetchWithTimeout, digestFetchWithTimeout: ms = 10000
FETCH_TIMEOUT_MS == 10000

\* Math.floor(Math.random() * 250) is below this
JITTER_SPAN == 250

\* the jitter drawn: the least and the greatest value
RetryJitters == {0, JITTER_SPAN - 1}

\* setTimeout of the runtime (Node.js): a delay above this many ms is set to 1
TIMEOUT_MAX == 2147483647

\* the statuses the target answers with
Statuses == {200, 299, 404}

\* the time to the response (its status and headers), in ms
ResponseLatencies == {50}

\* the time from the response to the end of its body, in ms
BodyLatencies == {1, 20000}

Pow2(i) == 2 ^ i

\* response.ok that holds for every status (sensitivity variant for C16)
responseOk_any(status) == TRUE

\* response.ok
responseOk(status) == status >= 200 /\ status <= 299

\* doWithRetries, line 873: tries, in halves (attempts comes in halves)
triesHalves(attempts) == Max(2, IF attempts = 0 THEN 2 ELSE attempts)

\* doWithRetries, line 874: base
retryBase(baseDelayMs) == Max(0, baseDelayMs)

\* base * Math.pow(2, i) + jitter is above TIMEOUT_MAX
retryDelayOverflows(base, i, jitter) == base > (TIMEOUT_MAX - jitter) \div Pow2(i)

\* the time `await new Promise(r => setTimeout(r, delay))` takes, in ms
retryWait(base, i, jitter) ==
  IF retryDelayOverflows(base, i, jitter) THEN 1 ELSE base * Pow2(i) + jitter

NoCall == [phase |-> "", src |-> ""]

\* no invokeAction call is running:
\*   pc        "idle", "fetch" (awaiting the response), "body" (awaiting
\*             response.text()), "wait" (the retry delay), "done"
\*   i, call   the instance and its switchPhase call
\*   attempts  c.retries, in halves;  baseDelayMs  c.retryBaseDelayMs
\*   n         the loop index i of doWithRetries
\*   clock     ms since invokeAction was called;  started  the clock at fn()
\*   status    the status of the response received;  wake  the end of the delay
\*   made      the attempts ended so far;  waits  the delays taken so far
\*   result    "none", "ok" (doWithRetries returned), "fail" (it threw)
ExecIdle ==
  [ pc |-> "idle", i |-> NoInst, call |-> NoCall, attempts |-> 2, baseDelayMs |-> 0,
    authType |-> "", method |-> "", n |-> 0, clock |-> 0, started |-> 0, status |-> 0, wake |-> 0,
    made |-> << >>, waits |-> << >>, result |-> "none" ]

\* the attempt under way ended at t with the outcome ok
Attempted(e, t, ok) ==
  Append(e.made, [ n |-> e.n, authType |-> e.authType, method |-> e.method,
                   started |-> e.started,
                   ended |-> t, status |-> e.status, ok |-> ok ])

\* doWithRetries, lines 879-891: fn() threw at t
failedAttempt(e, t, jitter) ==
  IF 2 * e.n < triesHalves(e.attempts) - 2
  THEN IF retryBase(e.baseDelayMs) > 0 \/ jitter > 0
       THEN [ e EXCEPT !.pc = "wait", !.clock = t, !.status = 0,
                       !.wake = t + retryWait(retryBase(e.baseDelayMs), e.n, jitter),
                       !.made = Attempted(e, t, FALSE),
                       !.waits = Append(@, [ after |-> e.n, jitter |-> jitter,
                                             ms |-> retryWait(retryBase(e.baseDelayMs),
                                                              e.n, jitter) ]) ]
       ELSE [ e EXCEPT !.pc = "fetch", !.n = e.n + 1, !.clock = t, !.started = t,
                       !.status = 0, !.made = Attempted(e, t, FALSE) ]
  ELSE [ e EXCEPT !.pc = "done", !.clock = t, !.status = 0,
                  !.made = Attempted(e, t, FALSE), !.result = "fail" ]

\* doWithRetries, line 878: fn() returned at t
succeededAttempt(e, t) ==
  [ e EXCEPT !.pc = "done", !.clock = t, !.status = 0,
             !.made = Attempted(e, t, TRUE), !.result = "ok" ]

ExecFrame ==
  UNCHANGED << stepped, dates, look, burst, now, ticks, gstore, storage, life, mixinsById, getMixinWait,
               settingsState, timers, globalsDebounce, sunTimesCache, inflight,
               ops, steady, fired, missed, offByPut >>

ExecEv(e) == Ev("attempt", e.i, e.pc, << e.call >>, NoRes)

\* invokeAction, line 951: (action.method || 'GET').toUpperCase()
requestMethod(action) ==
  toUpperCase(IF action.method = "" \/ action.method = undefined THEN "GET"
              ELSE action.method)

\* invokeAction past its URL check: doWithRetries starts and calls fn()
ExecStart(i) ==
  /\ exec.pc = "idle"
  /\ inflight[i] # << >>
  /\ \E c \in {readConfig(settingsState[i], gstore)} :
     \E e \in {[ ExecIdle EXCEPT !.pc = "fetch", !.i = i, !.call = inflight[i][1],
                                  !.attempts = c.retries,
                                  !.baseDelayMs = c.retryBaseDelayMs,
                                  !.authType = c.authType,
                                  !.method = requestMethod(
                                    IF inflight[i][1].phase = "day" THEN c.day
                                    ELSE c.night) ]} :
        exec' = e /\ ev' = ExecEv(e)
  /\ ExecFrame
  /\ UNCHANGED accepted

\* fetch / client.fetch resolves with a response before the abort timer runs
ExecResponse(status, latency) ==
  /\ exec.pc = "fetch"
  /\ latency < FETCH_TIMEOUT_MS
  /\ \E e \in {[ exec EXCEPT !.pc = "body", !.status = status,
                              !.clock = exec.started + latency ]} :
        exec' = e /\ ev' = ExecEv(e)
  /\ ExecFrame

ExecRespond(status, latency) == ExecResponse(status, latency) /\ UNCHANGED accepted

\* the same, the answers of the target noted: a 2xx answer is the target
\* accepting the request
ExecRespondNoted(status, latency) ==
  /\ ExecResponse(status, latency)
  /\ accepted' = IF responseOk(status) THEN [accepted EXCEPT ![exec.i] = exec.call.phase]
                ELSE accepted

\* fetch / client.fetch rejects (connection failure) before the abort timer runs
ExecReject(latency) ==
  /\ exec.pc = "fetch"
  /\ latency < FETCH_TIMEOUT_MS
  /\ \E jitter \in RetryJitters :
     \E e \in {failedAttempt(exec, exec.started + latency, jitter)} :
        exec' = e /\ ev' = ExecEv(e)
  /\ ExecFrame
  /\ UNCHANGED accepted

\* the abort timer runs: ac.abort() makes fetch / client.fetch reject
ExecAbort ==
  /\ exec.pc = "fetch"
  /\ \E jitter \in RetryJitters :
     \E e \in {failedAttempt(exec, exec.started + FETCH_TIMEOUT_MS, jitter)} :
        exec' = e /\ ev' = ExecEv(e)
  /\ ExecFrame
  /\ UNCHANGED accepted

\* response.text().catch(() => '') settles (the abort timer was cleared when
\* the response arrived); then `if (!response.ok) throw`
ExecBody(latency) ==
  /\ exec.pc = "body"
  /\ \E jitter \in RetryJitters :
     \E e \in { IF responseOk(exec.status)
                 THEN succeededAttempt(exec, exec.clock + latency)
                 ELSE failedAttempt(exec, exec.clock + latency, jitter) } :
        exec' = e /\ ev' = ExecEv(e)
  /\ ExecFrame
  /\ UNCHANGED accepted

\* the retry delay is over: i++ and fn() again
ExecWake ==
  /\ exec.pc = "wait"
  /\ \E e \in {[ exec EXCEPT !.pc = "fetch", !.n = exec.n + 1,
                              !.clock = exec.wake, !.started = exec.wake ]} :
        exec' = e /\ ev' = ExecEv(e)
  /\ ExecFrame
  /\ UNCHANGED accepted

\* doWithRetries returned or threw: invokeAction ends and switchPhase goes on
ExecDone ==
  /\ exec.pc = "done"
  /\ switchPhaseEnd(exec.i, 1, exec.result = "ok")
  /\ exec' = ExecIdle
  /\ UNCHANGED accepted

\* the adjusted instants of phase that fall on instant t, for configuration c
Due(c, phase, t) ==
  /\ c.enabled
  /\ isNum(c.latitude) /\ isNum(c.longitude)
  /\ The(c.latitude) <= 66 /\ The(c.latitude) >= -66
  /\ The(c.longitude) >= -180 /\ The(c.longitude) <= 180
  /\ \E d \in (localDayKey(t) - 1)..(localDayKey(t) + 1) :
       LET raw == SunCalcGetTimes(d * DayTicks, The(c.latitude), The(c.longitude))
       IN IF phase = "day"
          THEN applyOffset(The(raw.sunrise), c.sunriseOffsetMins) = t
          ELSE applyOffset(The(raw.sunset), c.sunsetOffsetMins) = t

\* the clock advances by one tick: every timer due has fired, every timeout
\* of zero delay has run, and the invocations in flight have ended (each
\* attempt is cut off after 10 s).  The clock starts with the first attach.
Advance ==
  /\ life["i1"] # "none"
  /\ getMixinWait = NoInst
  /\ NoneDue
  /\ \A i \in Inst : inflight[i] = << >>
  /\ now' = now + 1
  /\ ticks' = ticks + 1
  /\ steady' = [ i \in Inst |-> IF steady[i] >= 1 THEN 2 ELSE 0 ]
  /\ fired' = {}
  /\ missed' = missed \cup
       { x \in Inst \X {"day", "night"} :
           /\ steady[x[1]] = 2
           /\ life[x[1]] = "live"
           /\ Due(readConfig(settingsState[x[1]], gstore), x[2], now)
           /\ x \notin fired }
  /\ ev' = Ev("tick", NoInst, "", << >>, NoRes)
  /\ UNCHANGED << accepted, stepped, dates, look, burst, exec, gstore, storage, life, mixinsById, getMixinWait, settingsState,
                  timers, globalsDebounce, sunTimesCache, inflight, ops, offByPut >>

Tick == ticks < MaxTicks /\ Advance

TickRun == now < MaxRunTime /\ Advance

\* ------------------------------------ rescheduleAll, statement by statement
\* rescheduleAll that awaits after arming the recompute and the guard timer
\* (sensitivity variant for C34)
rescheduleAwaits_mid == {"base"}

\* the places at which rescheduleAll awaits, and so lets other callbacks of
\* the event loop run before it goes on: it has none
rescheduleAwaits == {}

\* no rescheduleAll call is followed:
\*   pc     "idle"; "cleared" (after clearTimers, readConfig and new Date());
\*          "base" (the recompute and the guard timer armed); "armed" (the
\*          lookups done and the action timers armed)
\*   i, op, kind   the instance and the callback that called rescheduleAll
\*          (of the call followed last, when idle)
\*   R      what the call does, from the configuration read at its start
NoResched == [ pc |-> "idle", i |-> NoInst, op |-> "", kind |-> "", R |-> << >> ]

\* a callback of the event loop may start: none is running, or the one
\* running awaits
CanRun == stepped.pc = "idle" \/ stepped.pc \in rescheduleAwaits

ReschedFrame ==
  UNCHANGED << accepted, dates, look, burst, exec, now, ticks, gstore, life, mixinsById,
               getMixinWait, ops, fired, missed, offByPut >>

\* the recompute, guard or settle timer k of instance i fires and
\* rescheduleAll runs up to line 724: clearTimers(), readConfig(), new Date()
ReschedBeginTimer(i, k) ==
  /\ CanRun
  /\ k \in 1..Len(timers[i])
  /\ timers[i][k].at <= now
  /\ timers[i][k].kind \in {"recalc", "guard", "settle"}
  /\ ~ActionDue(i)
  /\ \E jitter \in Jitters :
     \E cache \in {IF timers[i][k].kind = "recalc" THEN << >> ELSE sunTimesCache} :
     \E R \in {rescheduleAll(<< >>, settingsState[i], storage, cache, gstore, now, jitter)} :
       /\ stepped' = [ pc |-> "cleared", i |-> i, op |-> "timer",
                       kind |-> timers[i][k].kind, R |-> R ]
       /\ sunTimesCache' = cache
  /\ timers' = [timers EXCEPT ![i] = clearTimers(RemoveAt(@, k))]
  /\ ev' = Ev("rescheduleAll", i, "cleared", << >>, NoRes)
  /\ UNCHANGED << settingsState, storage, inflight, steady, globalsDebounce >>
  /\ ReschedFrame

\* the debounce timer of instance i fires and rescheduleAll runs up to line 724
ReschedBeginDebounce(i) ==
  /\ CanRun
  /\ globalsDebounce[i] # {}
  /\ The(globalsDebounce[i]) <= now
  /\ ~ActionDue(i)
  /\ \E jitter \in Jitters :
     \E R \in {rescheduleAll(<< >>, settingsState[i], storage, sunTimesCache, gstore,
                              now, jitter)} :
       stepped' = [ pc |-> "cleared", i |-> i, op |-> "debounce", kind |-> "", R |-> R ]
  /\ timers' = [timers EXCEPT ![i] = clearTimers(@)]
  /\ globalsDebounce' = [globalsDebounce EXCEPT ![i] = {}]
  /\ ev' = Ev("rescheduleAll", i, "cleared", << >>, NoRes)
  /\ UNCHANGED << settingsState, storage, inflight, steady, sunTimesCache >>
  /\ ReschedFrame

\* the timers of the kinds among those the call arms
ArmedOf(R, kinds) == SelectSeq(R.timers, LAMBDA x : x.kind \in kinds)

\* rescheduleAll, lines 726-736: the recompute timer and the guard timer
ReschedArmBase ==
  /\ stepped.pc = "cleared"
  /\ stepped' = [ stepped EXCEPT !.pc = "base" ]
  /\ timers' = [timers EXCEPT ![stepped.i] = @ \o ArmedOf(stepped.R, {"recalc", "guard"})]
  /\ ev' = Ev("rescheduleAll", stepped.i, "base", << >>, NoRes)
  /\ UNCHANGED << settingsState, storage, inflight, steady, globalsDebounce,
                  sunTimesCache >>
  /\ ReschedFrame

\* rescheduleAll, lines 738-788: the lookups and the two action timers, when
\* the camera is enabled, its location valid and the sun rises and sets today
ReschedArmActions ==
  /\ stepped.pc = "base"
  /\ stepped' = [ stepped EXCEPT !.pc = "armed" ]
  /\ timers' = [timers EXCEPT ![stepped.i] = @ \o ArmedOf(stepped.R, {"sunrise", "sunset"})]
  /\ sunTimesCache' = stepped.R.cache
  /\ ev' = Ev("rescheduleAll", stepped.i, "armed", << >>, NoRes)
  /\ UNCHANGED << settingsState, storage, inflight, steady, globalsDebounce >>
  /\ ReschedFrame

\* rescheduleAll, lines 740-809: the previews saved, the sync check, return
ReschedEnd ==
  /\ stepped.pc = "armed"
  /\ stepped' = [ stepped EXCEPT !.pc = "idle", !.R = << >> ]
  /\ \E i \in {stepped.i} :
     \E R \in {stepped.R} :
       /\ settingsState' = [settingsState EXCEPT ![i] = R.ss.st]
       /\ storage' = R.ss.stor
       /\ inflight' = [inflight EXCEPT ![i] = syncCalls(@, R.ss.st, gstore, R.res.calls)]
       /\ steady' = Steadied(i, R.res)
       /\ ev' = Ev(stepped.op, i, stepped.kind, Invoked(R.res.calls, "sync"), R.res)
  /\ UNCHANGED << timers, globalsDebounce, sunTimesCache >>
  /\ ReschedFrame

\* ------------------------------------------------------------ specifications
NoSettings == [ k \in Keys |-> undefined ]

\* The stores as an earlier run of the plugin may have left them.
GlobalStore(lat, lon, sunriseOff, sunsetOff, sync) ==
  [ latitude |-> lat, longitude |-> lon, sunriseOffsetMins |-> sunriseOff,
    sunsetOffsetMins |-> sunsetOff, syncOnStartup |-> sync,
    timeZone |-> undefined, use24h |-> undefined, retries |-> undefined,
    retryBaseDelayMs |-> undefined, logResponses |-> undefined ]

CameraStore(enabled, lastPhase, dayUrl) ==
  [ NoSettings EXCEPT !["enabled"] = enabled, !["lastPhase"] = lastPhase,
                      !["day.url"] = dayUrl, !["night.url"] = "http://cam/night" ]

StartTimes == {6, 19}

RunStartTimes == {0, 8, 21}

InitIdle ==
  /\ ticks = 0
  /\ life = [ i \in Inst |-> "none" ]
  /\ mixinsById = NoInst
  /\ getMixinWait = NoInst
  /\ settingsState = [ i \in Inst |-> NoSettings ]
  /\ timers = [ i \in Inst |-> << >> ]
  /\ globalsDebounce = [ i \in Inst |-> {} ]
  /\ inflight = [ i \in Inst |-> << >> ]
  /\ ops = 0
  /\ steady = [ i \in Inst |-> 0 ]
  /\ fired = {}
  /\ missed = {}
  /\ offByPut = [ i \in Inst |-> FALSE ]
  /\ exec = ExecIdle
  /\ burst = NoBurst
  /\ dates = NoDates
  /\ stepped = NoResched
  /\ accepted = [ i \in Inst |-> "" ]
  /\ ev = Ev("init", NoInst, "", << >>, NoRes)

InitRest ==
  /\ InitIdle
  /\ sunTimesCache = << >>
  /\ look = NoLook

Init ==
  /\ now \in StartTimes
  /\ gstore = GlobalStore("51", "0", undefined, undefined, undefined)
  /\ storage \in { CameraStore(e, l, "http://cam/day") :
                     e \in {undefined, "true"}, l \in {undefined, "night"} }
  /\ InitRest

\* A camera left enabled by an earlier run, under each stored configuration.
InitRun ==
  /\ now \in RunStartTimes
  /\ gstore \in { GlobalStore(ll[1], ll[2], sr, ss, sync) :
                    ll \in { <<"51", "0">>, <<"78", "0">>, <<undefined, "0">>,
                             <<"95", "0">>, <<"51", "200">> },
                    sr \in {"-720", undefined, "720"},
                    ss \in {"-720", undefined, "720"},
                    sync \in {undefined, "false"} }
  /\ storage \in { CameraStore("true", l, u) :
                     l \in {undefined, "day", "night"},
                     u \in {undefined, "http://cam/day"} }
  /\ InitRest

\* One scheduler instance, the user and the clock.
Next ==
  \/ GetMixin("i1")
  \/ ReleaseMixin
  \/ \E p \in MixinPuts : PutMixinSetting(p[1], p[2])
  \/ ButtonPreview
  \/ \E phase \in {"day", "night"} : ButtonSwitch(phase)
  \/ \E p \in GlobalPuts : PutSetting(p[1], p[2])
  \/ \E i \in Inst : DebounceFire(i)
  \/ \E i \in Inst : \E k \in 1..4 : TimerFire(i, k)
  \/ \E i \in Inst : \E k \in 1..4 : \E ok \in BOOLEAN : Complete(i, k, ok)
  \/ Tick

Spec == Init /\ [][Next]_vars

\* The camera runs on its own: timers, invocations and the clock.
NextRun ==
  \/ GetMixin("i1")
  \/ \E k \in 1..4 : TimerFire("i1", k)
  \/ \E k \in 1..4 : \E ok \in BOOLEAN : Complete("i1", k, ok)
  \/ TickRun

SpecRun == InitRun /\ [][NextRun]_vars

\* A camera left enabled by an earlier run, with each combination of override
\* flags, entity-local values that differ from the global ones, and blank or
\* out-of-range values in either store; the user then changes settings.
InitConfig ==
  /\ now = 8
  /\ gstore \in { [ GlobalStore(lat, "0", off, undefined, undefined)
                       EXCEPT !.retries = "3" ] :
                    lat \in {"51", " ", "95"},
                    off \in {undefined, "780"} }
  /\ storage \in { [ CameraStore("true", undefined, "http://cam/day")
                        EXCEPT !["overrideLocationAndTime"] = ol,
                               !["overrideOffsets"] = oo,
                               !["overrideReliability"] = orl,
                               !["latitude"] = lat, !["longitude"] = "180",
                               !["timeZone"] = "UTC", !["use24h"] = "false",
                               !["syncOnStartup"] = "false",
                               !["sunriseOffsetMins"] = "-780",
                               !["retries"] = "1", !["retryBaseDelayMs"] = "100",
                               !["logResponses"] = "true" ] :
                     ol \in {undefined, "true"}, oo \in {undefined, "true"},
                     orl \in {undefined, "true"}, lat \in {" ", "51.0"} }
  /\ InitRest

ConfigMixinPuts ==
  { <<"overrideLocationAndTime", "true">>, <<"overrideLocationAndTime", "false">>,
    <<"latitude", " ">>, <<"latitude", "north">>, <<"latitude", "95">>,
    <<"sunriseOffsetMins", "780">> }

ConfigGlobalPuts ==
  { <<"global.latitude", " ">>, <<"global.latitude", "95">>,
    <<"global.sunsetOffsetMins", "-780">> }

\* the clock goes on, for the debounce of a global change to run
TickConfig == ticks < MaxConfigTicks /\ Advance

NextConfig ==
  \/ GetMixin("i1")
  \/ \E p \in ConfigMixinPuts : PutMixinSetting(p[1], p[2])
  \/ \E p \in ConfigGlobalPuts : PutSetting(p[1], p[2])
  \/ \E i \in Inst : DebounceFire(i)
  \/ \E i \in Inst : \E k \in 1..4 : TimerFire(i, k)
  \/ \E i \in Inst : \E k \in 1..4 : Complete(i, k, TRUE)
  \/ TickConfig

SpecConfig == InitConfig /\ [][NextConfig]_vars

\* An enabled camera under each stored reliability configuration; its
\* invocations are followed attempt by attempt.  One invokeAction call is
\* followed at a time, the calls of an instance in the order they were made.
InitExec ==
  /\ now = 8
  /\ gstore \in { [ GlobalStore("51", "0", undefined, undefined, "false")
                       EXCEPT !.retries = r, !.retryBaseDelayMs = b ] :
                    r \in {undefined, "0", "1", "3", "2.5"},
                    b \in {undefined, "-1", "100", "2000000000"} }
  /\ storage \in { [ CameraStore("true", "night", u) EXCEPT !["authType"] = a ] :
                     u \in {undefined, "", "http://cam/day"},
                     a \in {undefined, "none"} }
  /\ InitRest

NextExec ==
  \/ GetMixin("i1")
  \/ \E phase \in {"day", "night"} : ButtonSwitch(phase)
  \/ ExecStart("i1")
  \/ \E status \in Statuses : \E latency \in ResponseLatencies :
       ExecRespond(status, latency)
  \/ \E latency \in ResponseLatencies : ExecReject(latency)
  \/ ExecAbort
  \/ \E latency \in BodyLatencies : ExecBody(latency)
  \/ ExecWake
  \/ ExecDone

SpecExec == InitExec /\ [][NextExec]_vars

\* An enabled camera with valid coordinates and sync-on-startup on, whose
\* target may fail any request before HealthyFrom and answers 2xx from then on.
InitLive ==
  /\ now \in RunStartTimes
  /\ gstore \in { GlobalStore("51", "0", sr, ss, undefined) :
                    sr \in {"-720", undefined, "720"},
                    ss \in {"-720", undefined, "720"} }
  /\ storage \in { CameraStore("true", l, "http://cam/day") :
                     l \in {undefined, "day", "night"} }
  /\ InitRest

CompleteLive(i, k, ok) == (ok \/ now < HealthyFrom) /\ Complete(i, k, ok)

NextLive ==
  \/ GetMixin("i1")
  \/ \E k \in 1..4 : TimerFire("i1", k)
  \/ \E k \in 1..4 : \E ok \in BOOLEAN : CompleteLive("i1", k, ok)
  \/ TickRun

\* a callback of the camera is due, or a request of it is in flight
Pending ==
  \/ life["i1"] = "none"
  \/ \E k \in 1..Len(timers["i1"]) : timers["i1"][k].at <= now
  \/ inflight["i1"] # << >>

\* The event loop runs every due callback and every request in flight ends
\* (each attempt is cut off by its timeout), so again and again nothing is
\* pending; and whenever nothing is pending the clock goes on.
SpecLive == InitLive /\ [][NextLive]_vars /\ []<>(~Pending) /\ WF_vars(TickRun)

\* a callback of some instance is due, or a request is in flight
PendingAny ==
  \E i \in Inst :
    \/ \E k \in 1..Len(timers[i]) : timers[i][k].at <= now
    \/ \E d \in globalsDebounce[i] : d <= now
    \/ inflight[i] # << >>

NextGlobal ==
  \/ GetMixin("i1")
  \/ ReleaseMixin
  \/ \E p \in GlobalPuts : PutSetting(p[1], p[2])
  \/ \E i \in Inst : DebounceFire(i)
  \/ \E i \in Inst : \E k \in 1..4 : TimerFire(i, k)
  \/ \E i \in Inst : \E k \in 1..4 : \E ok \in BOOLEAN : Complete(i, k, ok)
  \/ Tick

\* The global settings are changed while a camera is attached or released.
\* The event loop runs every due callback and every request in flight ends,
\* and whenever nothing is pending the clock goes on.
SpecGlobal == Init /\ [][NextGlobal]_vars /\ []<>(~PendingAny) /\ WF_vars(Tick)

\* The debounce of one instance, notified at any instants.
NextBurst ==
  \/ BurstNotify
  \/ BurstFire
  \/ \E d \in BurstSteps : BurstWait(d)
  \/ BurstWaitDue

InitBurst ==
  /\ now = 6
  /\ gstore = GlobalStore("51", "0", undefined, undefined, undefined)
  /\ storage = CameraStore("true", undefined, "http://cam/day")
  /\ InitRest

SpecBurst == InitBurst /\ [][NextBurst]_vars

\* The Map as earlier lookups left it (empty, one below the limit, at the
\* limit), then looked up and cleared.
InitCache ==
  /\ now = 8
  /\ gstore = GlobalStore("51", "0", undefined, undefined, undefined)
  /\ storage = CameraStore("true", undefined, "http://cam/day")
  /\ InitIdle
  /\ sunTimesCache \in { FullCache(m) :
                           m \in {0, SUN_TIMES_CACHE_LIMIT - 1, SUN_TIMES_CACHE_LIMIT} }
  /\ look = LookOf(sunTimesCache)

NextCache ==
  \/ \E d \in LookupDays : Lookup(d * DayTicks, 51, 0)
  \/ CacheClear

SpecCache == InitCache /\ [][NextCache]_vars

\* The executor with each method an earlier run may have left in the camera's
\* store, and the methods a user submits.
MethodPuts == { <<"day.method", "trace">>, <<"day.method", " post ">> }

InitMethod ==
  /\ now = 8
  /\ gstore = GlobalStore("51", "0", undefined, undefined, "false")
  /\ storage \in { [ CameraStore("true", "night", "http://cam/day")
                       EXCEPT !["day.method"] = m, !["authType"] = "none" ] :
                     m \in {undefined, "", "put", "HEAD"} }
  /\ InitRest

NextMethod ==
  \/ GetMixin("i1")
  \/ \E p \in MethodPuts : PutMixinSetting(p[1], p[2])
  \/ \E phase \in {"day", "night"} : ButtonSwitch(phase)
  \/ ExecStart("i1")
  \/ \E status \in Statuses : \E latency \in ResponseLatencies :
       ExecRespond(status, latency)
  \/ \E latency \in BodyLatencies : ExecBody(latency)
  \/ ExecDone

SpecMethod == InitMethod /\ [][NextMethod]_vars

\* The lookups of two days, and a caller that changes the Dates it is returned.
InitDates ==
  /\ now = 8
  /\ gstore = GlobalStore("51", "0", undefined, undefined, undefined)
  /\ storage = CameraStore("true", undefined, "http://cam/day")
  /\ InitRest

NextDates ==
  \/ \E d \in {0, 1} : DateLookup(now + d * DayTicks, 51, 0)
  \/ \E field \in {"sunrise", "sunset"} : \E offset \in MutateOffsets :
       DateMutate(field, offset)

SpecDates == InitDates /\ [][NextDates]_vars

\* The scheduler with the rescheduleAll calls of its timer callbacks followed
\* statement by statement; the other callbacks and the user's operations run
\* when the event loop is free.
NextSteps ==
  \/ CanRun /\ Next
  \/ \E i \in Inst : \E k \in 1..4 : ReschedBeginTimer(i, k)
  \/ \E i \in Inst : ReschedBeginDebounce(i)
  \/ ReschedArmBase
  \/ ReschedArmActions
  \/ ReschedEnd

SpecSteps == Init /\ [][NextSteps]_vars

\* a call of the instance other than the one followed ends while the followed
\* one awaits its response, the body of its response or its retry delay (the
\* step from the end of doWithRetries to the end of switchPhase is a chain of
\* promise continuations, which nothing interleaves)
CompleteBeside(i, k, ok) ==
  /\ exec.i = i
  /\ exec.pc \in {"fetch", "body", "wait"}
  /\ k >= 2
  /\ switchPhaseEnd(i, k, ok)
  /\ accepted' = IF ok THEN [accepted EXCEPT ![i] = inflight[i][k].phase] ELSE accepted
  /\ UNCHANGED exec

\* A camera with both URLs, its last phase night, at 08:00; one attempt per
\* call or three.
InitAccept ==
  /\ now = 8
  /\ gstore \in { [ GlobalStore("51", "0", undefined, undefined, "false")
                       EXCEPT !.retries = r, !.retryBaseDelayMs = "100" ] :
                    r \in {undefined, "3"} }
  /\ storage = CameraStore("true", "night", "http://cam/day")
  /\ InitRest

\* An invokeAction call followed attempt by attempt while the other calls of
\* the instance, started beside it, end on their own.
NextAccept ==
  \/ GetMixin("i1")
  \/ \E phase \in {"day", "night"} : ButtonSwitch(phase)
  \/ ExecStart("i1")
  \/ \E status \in Statuses : \E latency \in ResponseLatencies :
       ExecRespondNoted(status, latency)
  \/ \E latency \in ResponseLatencies : ExecReject(latency)
  \/ ExecAbort
  \/ \E latency \in BodyLatencies : ExecBody(latency)
  \/ ExecWake
  \/ ExecDone
  \/ \E k \in 2..3 : \E ok \in BOOLEAN : CompleteBeside("i1", k, ok)

SpecAccept == InitAccept /\ [][NextAccept]_vars

\* The camera's mixin is created a second time while the first instance is
\* registered; the user changes global settings and releases the mixin.
NextAttach ==
  \/ \E i \in Inst : GetMixin(i)
  \/ GetMixinResume
  \/ ReleaseMixin
  \/ \E p \in GlobalPuts : PutSetting(p[1], p[2])
  \/ \E i \in Inst : DebounceFire(i)
  \/ \E i \in Inst : \E k \in 1..4 : TimerFire(i, k)
  \/ \E i \in Inst : \E k \in 1..4 : \E ok \in BOOLEAN : Complete(i, k, ok)
  \/ Tick

SpecAttach == Init /\ [][NextAttach]_vars

\* ------------------------------------------------------------- properties
\* An offset of mins minutes, in ticks.
OffsetTicks(mins) == (mins * 60000) \div TickMs

\* The last step ran rescheduleAll on an instance and reached Scheduled.
Scheduled == ev.res.outcome = "scheduled"

\* C1: while a camera stays enabled with valid coordinates, a solar event on
\* every day and offsets within [-720, 720], every adjusted sunrise and
\* sunset instant is followed by the timer-driven invocation of its phase:
\* no adjusted instant passes, on an instance scheduled earlier and
\* undisturbed since, without its action timer having fired.
C1_NoAdjustedEventSkipped == missed = {}

\* C2: in rescheduleAll, for sunrise and sunset independently, the resolved
\* next instant is today's adjusted instant when that is strictly later than
\* now, otherwise tomorrow's raw instant plus the offset when tomorrow's raw
\* instant exists, otherwise today's adjusted instant; the action timers
\* that are armed target the resolved instants.
C2_NextInstantResolved ==
  Scheduled =>
    LET r == ev.res
        todaySunrise == The(r.todayRaw.sunrise) + OffsetTicks(r.c.sunriseOffsetMins)
        todaySunset == The(r.todayRaw.sunset) + OffsetTicks(r.c.sunsetOffsetMins)
    IN /\ r.nextSunrise =
            IF todaySunrise > r.at THEN {todaySunrise}
            ELSE IF r.tomorrowRaw.sunrise # {}
            THEN {The(r.tomorrowRaw.sunrise) + OffsetTicks(r.c.sunriseOffsetMins)}
            ELSE {todaySunrise}
       /\ r.nextSunset =
            IF todaySunset > r.at THEN {todaySunset}
            ELSE IF r.tomorrowRaw.sunset # {}
            THEN {The(r.tomorrowRaw.sunset) + OffsetTicks(r.c.sunsetOffsetMins)}
            ELSE {todaySunset}
       /\ \A k \in 1..Len(timers[ev.i]) :
            /\ timers[ev.i][k].kind = "sunrise" => {timers[ev.i][k].target} = r.nextSunrise
            /\ timers[ev.i][k].kind = "sunset" => {timers[ev.i][k].target} = r.nextSunset

\* C2, its case: now is after both of today's adjusted events and both next
\* instants are drawn from tomorrow, each with an action timer armed.
C2_BothFromTomorrow ==
  /\ Scheduled
  /\ ev.res.at >= The(ev.res.todayRaw.sunrise) + OffsetTicks(ev.res.c.sunriseOffsetMins)
  /\ ev.res.at >= The(ev.res.todayRaw.sunset) + OffsetTicks(ev.res.c.sunsetOffsetMins)
  /\ ev.res.tomorrowRaw.sunrise # {} /\ ev.res.tomorrowRaw.sunset # {}
  /\ \E k \in 1..Len(timers[ev.i]) : timers[ev.i][k].kind = "sunrise"
  /\ \E k \in 1..Len(timers[ev.i]) : timers[ev.i][k].kind = "sunset"

\* C3: with a solar event today and tomorrow and a sunrise offset within
\* [-720, 720], when now is after today's adjusted sunrise the next sunrise
\* that rescheduleAll resolves is strictly later than now.
C3_NextSunriseAfterNow ==
  ( /\ Scheduled
    /\ ev.res.tomorrowRaw.sunrise # {}
    /\ ev.res.c.sunriseOffsetMins >= -720 /\ ev.res.c.sunriseOffsetMins <= 720
    /\ ev.res.at > The(ev.res.todayRaw.sunrise) + OffsetTicks(ev.res.c.sunriseOffsetMins) )
  => The(ev.res.nextSunrise) > ev.res.at

C5_ActionTimerFires ==
  /\ [] ( ev.op = "timer" /\ ev.kind \in {"sunrise", "sunset"} =>
            /\ ev.invoked = << [ phase |-> IF ev.kind = "sunrise" THEN "day" ELSE "night",
                                 src |-> "timer" ] >>
            /\ \E k \in 1..Len(timers[ev.i]) :
                 /\ timers[ev.i][k].kind = "settle"
                 /\ timers[ev.i][k].armed = now
                 /\ timers[ev.i][k].at = now + 1 )
  /\ [][ ev'.op \in {"switched", "failed"} => timers' = timers ]_vars

\* C5, its case: a timer-driven invocation failed while the settle timer
\* armed at its firing was pending.
C5_FailedWithSettlePending ==
  /\ ev.op = "failed" /\ ev.kind = "timer"
  /\ \E k \in 1..Len(timers[ev.i]) : timers[ev.i][k].kind = "settle"

\* C6: after 'enabled' is set to false and until it is set to true again,
\* the instance has no pending timer and no rescheduleAll runs on it.
C6_DisabledStaysIdle ==
  \A i \in Inst :
    offByPut[i] /\ life[i] = "live" =>
      /\ timers[i] = << >>
      /\ ev.i = i => ev.res.outcome = "none"

\* C7: a released instance has no pending timer, runs no rescheduleAll and
\* starts no timer-driven or sync-driven invocation.
C7_ReleasedStaysIdle ==
  \A i \in Inst :
    life[i] = "released" =>
      /\ timers[i] = << >>
      /\ ev.i = i /\ ev.op \in {"debounce", "timer"} => FALSE

\* C8: when rescheduleAll runs on an enabled instance whose latitude or
\* longitude is absent or out of range, or for which today has no sunrise or
\* sunset, it arms no action timer and starts no invocation, and it leaves
\* the recompute timer and the 6-hour guard timer armed.
C8_ErrorKeepsRecomputeAndGuard ==
  ( /\ ev.res.outcome # "none"
    /\ ev.res.c.enabled
    /\ \/ ev.res.c.latitude = {} \/ ev.res.c.longitude = {}
       \/ The(ev.res.c.latitude) < -90 \/ The(ev.res.c.latitude) > 90
       \/ The(ev.res.c.longitude) < -180 \/ The(ev.res.c.longitude) > 180
       \/ SunCalcGetTimes(ev.res.at, The(ev.res.c.latitude),
                          The(ev.res.c.longitude)).sunrise = {}
       \/ SunCalcGetTimes(ev.res.at, The(ev.res.c.latitude),
                          The(ev.res.c.longitude)).sunset = {} )
  => /\ ev.invoked = << >>
     /\ { timers[ev.i][k].kind : k \in 1..Len(timers[ev.i]) } = {"recalc", "guard"}
     /\ \A k \in 1..Len(timers[ev.i]) :
          /\ timers[ev.i][k].armed = now
          /\ timers[ev.i][k].kind = "guard" => timers[ev.i][k].at = now + 6
          /\ timers[ev.i][k].kind = "recalc" => timers[ev.i][k].at \in {now + 1, now + 2}

\* C8, its case: a timer re-ran rescheduleAll on a day without sunrise and
\* sunset, and the recompute and guard timers are armed again.
C8_NoEventRearmed ==
  /\ ev.op = "timer" /\ ev.res.outcome = "error-noevent"
  /\ { timers[ev.i][k].kind : k \in 1..Len(timers[ev.i]) } = {"recalc", "guard"}

\* C9: when rescheduleAll reaches Scheduled with sync-on-startup true, the
\* executor is invoked, for Day when adjusted sunrise <= now < adjusted
\* sunset and for Night otherwise, exactly when the last recorded phase
\* differs from that phase (an unrecorded one differs); with sync-on-startup
\* false the reschedule starts no invocation.
C9_SyncInvokesExpectedPhase ==
  Scheduled =>
    LET r == ev.res
        adjustedSunrise == The(r.todayRaw.sunrise) + OffsetTicks(r.c.sunriseOffsetMins)
        adjustedSunset == The(r.todayRaw.sunset) + OffsetTicks(r.c.sunsetOffsetMins)
        expected == IF adjustedSunrise <= r.at /\ r.at < adjustedSunset
                    THEN "day" ELSE "night"
    IN ev.invoked =
         IF r.c.syncOnStartup /\ r.lastPhase # expected
         THEN << [phase |-> expected, src |-> "sync"] >>
         ELSE << >>

\* C9, its case: at the adjusted sunrise itself, with no phase recorded, the
\* sync check invoked Day.
C9_UnrecordedAtSunrise ==
  /\ Scheduled
  /\ ev.res.c.syncOnStartup
  /\ ev.res.lastPhase = undefined
  /\ ev.res.at = The(ev.res.todayRaw.sunrise) + OffsetTicks(ev.res.c.sunriseOffsetMins)
  /\ ev.invoked = << [phase |-> "day", src |-> "sync"] >>

\* C10 (as the code has it): with sync-on-startup on, the last recorded phase
\* Night and adjusted sunrise <= now < adjusted sunset, a reschedule starts
\* exactly one invocation, for Day; the last recorded phase becomes Day when
\* a sync Day invocation ends in success, and is left as it was when it ends
\* in failure.
C10_SyncDayThenRecorded ==
  /\ [] ( ( /\ Scheduled
            /\ ev.res.c.syncOnStartup
            /\ ev.res.lastPhase = "night"
            /\ The(ev.res.todayRaw.sunrise) + OffsetTicks(ev.res.c.sunriseOffsetMins)
                 <= ev.res.at
            /\ ev.res.at <
                 The(ev.res.todayRaw.sunset) + OffsetTicks(ev.res.c.sunsetOffsetMins) )
          => ev.invoked = << [phase |-> "day", src |-> "sync"] >> )
  /\ [] ( ev.op = "switched" /\ ev.invoked = << [phase |-> "day", src |-> "sync"] >>
          => /\ settingsState[ev.i]["lastPhase"] = "day"
             /\ storage["lastPhase"] = "day" )
  /\ [][ ev'.op = "failed" =>
           /\ settingsState'[ev'.i]["lastPhase"] = settingsState[ev'.i]["lastPhase"]
           /\ storage'["lastPhase"] = storage["lastPhase"] ]_vars

\* C10, its case: the reschedule found Night recorded in daytime and
\* started the one Day invocation.
C10_NightRecordedInDaytime ==
  /\ Scheduled
  /\ ev.res.c.syncOnStartup
  /\ ev.res.lastPhase = "night"
  /\ ev.invoked = << [phase |-> "day", src |-> "sync"] >>
  /\ \E k \in 1..Len(inflight[ev.i]) :
       inflight[ev.i][k] = [phase |-> "day", src |-> "sync"]

\* C10 as stated: once the sync Day invocation that found Night recorded has
\* ended, the last recorded phase is Day.
C10_RecordedDayAfterSync ==
  [][ ( /\ ev'.op \in {"switched", "failed"}
        /\ ev'.invoked = << [phase |-> "day", src |-> "sync"] >>
        /\ settingsState[ev'.i]["lastPhase"] = "night" )
      => settingsState'[ev'.i]["lastPhase"] = "day" ]_vars

\* C11: the last recorded phase is written, with value P, exactly when an
\* invocation for phase P ends in overall success; an invocation that ends
\* in failure, or that fails at once because its URL is empty, leaves the
\* record as it was.
C11_RecordedOnSuccessOnly ==
  /\ [] ( ev.op = "switched" =>
            /\ settingsState[ev.i]["lastPhase"] = ev.invoked[1].phase
            /\ storage["lastPhase"] = ev.invoked[1].phase )
  /\ [][ /\ storage'["lastPhase"] # storage["lastPhase"] => ev'.op = "switched"
         /\ \A i \in Inst :
              ( life[i] = "live"
                /\ settingsState'[i]["lastPhase"] # settingsState[i]["lastPhase"] )
              => ev'.op = "switched" /\ ev'.i = i ]_vars

\* C11, its case: a timer-driven invocation succeeded and its phase, which
\* differs from the one recorded at the last reschedule, is now recorded.
C11_TimerSwitchRecorded ==
  /\ ev.op = "switched" /\ ev.kind = "timer"
  /\ storage["lastPhase"] = ev.invoked[1].phase

\* the last recorded phase of the camera is the phase checkCurrentPhase expects now
Converged ==
  /\ life["i1"] = "live"
  /\ \E c \in {readConfig(settingsState["i1"], gstore)} :
     \E raw \in {SunCalcGetTimes(now, The(c.latitude), The(c.longitude))} :
        settingsState["i1"]["lastPhase"] =
          expectedPhase(now, The(raw.sunrise), The(raw.sunset),
                        c.sunriseOffsetMins, c.sunsetOffsetMins)

\* C12: for a camera that stays enabled with sync-on-startup on, valid
\* coordinates and a solar event each day, once the target answers every
\* request with 2xx the last recorded phase eventually equals the expected
\* phase for the current time, without any user operation (a sync invocation
\* that failed is made again by a later recompute, guard or settle reschedule).
\* The clock of the model stops at MaxRunTime, so the instants considered
\* leave room for one more recompute (at most two ticks away).
C12_EventuallyConverges ==
  [] ( ( life["i1"] = "live" /\ now >= HealthyFrom /\ now <= MaxRunTime - 2 )
       => <> Converged )

\* a sync invocation made by a reschedule after the attach (the clock has
\* advanced since) and answered by the healthy target has recorded the
\* expected phase
C12_SyncConverged ==
  /\ ev.op = "switched" /\ ev.kind = "sync"
  /\ now >= HealthyFrom /\ ticks >= 2
  /\ Converged

\* the attempts of the running invokeAction call begun so far
ExecBegun == Len(exec.made) + (IF exec.pc \in {"fetch", "body"} THEN 1 ELSE 0)

\* max(1, n) for the resolved retry count n, in halves
MaxAttemptsHalves == Max(2, exec.attempts)

\* C13: for one invocation with resolved retry count n the executor makes at
\* most max(1, n) attempts, stops at the first successful attempt and reports
\* success, and when every attempt fails it makes exactly max(1, n) attempts
\* and then surfaces the failure.
C13_AttemptsAsConfigured ==
  /\ 2 * ExecBegun <= MaxAttemptsHalves
  /\ \A j \in 1..Len(exec.made) :
       exec.made[j].ok => j = Len(exec.made) /\ exec.result = "ok"
  /\ exec.result = "ok" => exec.made[Len(exec.made)].ok
  /\ exec.result = "fail" => 2 * Len(exec.made) = MaxAttemptsHalves

\* with n = 3 and a target that fails twice then succeeds, 3 attempts were
\* made and success is returned
C13_ThirdAttemptSucceeds ==
  /\ exec.attempts = 6 /\ exec.result = "ok"
  /\ Len(exec.made) = 3

\* the delay taken after attempt number i, as a set (empty: none was taken)
WaitAfter(i) == { w \in { exec.waits[j] : j \in 1..Len(exec.waits) } : w.after = i }

\* the start of attempt number i of the running call, as a set
StartOf(i) ==
  IF i + 1 <= Len(exec.made) THEN {exec.made[i + 1].started}
  ELSE IF exec.pc \in {"fetch", "body"} /\ exec.n = i THEN {exec.started}
  ELSE {}

\* C14: after failed attempt number i (from 0) that is not the last attempt
\* the executor waits max(0, base delay) * 2^i plus a jitter in [0, 250) ms
\* before attempt i+1; no wait follows the final failed attempt and none
\* precedes the first attempt.
C14_BackoffDelay ==
  /\ \A w \in { exec.waits[j] : j \in 1..Len(exec.waits) } :
       /\ w.jitter >= 0 /\ w.jitter < 250
       /\ (w.ms - w.jitter) % Pow2(w.after) = 0
       /\ (w.ms - w.jitter) \div Pow2(w.after) = Max(0, exec.baseDelayMs)
       /\ w.after + 1 <= Len(exec.made)
       /\ ~exec.made[w.after + 1].ok
       /\ 2 * (w.after + 1) < MaxAttemptsHalves
  /\ \A j \in 1..Len(exec.made) : \A t \in StartOf(j) :
       IF WaitAfter(j - 1) = {}
       THEN t = exec.made[j].ended /\ Max(0, exec.baseDelayMs) = 0
       ELSE \A w \in WaitAfter(j - 1) : t = exec.made[j].ended + w.ms
  /\ \A t \in StartOf(0) : t = 0
  /\ exec.result = "fail" =>
       /\ WaitAfter(Len(exec.made) - 1) = {}
       /\ exec.clock = exec.made[Len(exec.made)].ended

\* a second retry delay was taken after a first
C14_SecondDelayTaken == Len(exec.waits) = 2 /\ exec.pc = "wait"

\* C15: every HTTP attempt (digest or plain) ends, as a success or as a
\* failure, no later than 10 seconds after it starts.
C15_AttemptWithinDeadline ==
  /\ \A j \in 1..Len(exec.made) :
       exec.made[j].ended - exec.made[j].started <= 10000
  /\ exec.pc \in {"fetch", "body"} => exec.clock - exec.started <= 10000

\* an attempt was aborted at its deadline and counted as a failed attempt
C15_AbortedAtDeadline ==
  \E j \in 1..Len(exec.made) :
    /\ ~exec.made[j].ok /\ exec.made[j].status = 0
    /\ exec.made[j].ended - exec.made[j].started = 10000

\* C16: an attempt counts as a success only if a response with a 2xx status
\* is received; an attempt ending in a response with any other status is a
\* failed attempt and, like one ending in a network error or a timeout, it
\* is followed by the next attempt while attempts are left, on the digest
\* and on the non-digest path.
C16_SuccessOnly2xx ==
  /\ \A j \in 1..Len(exec.made) :
       exec.made[j].ok <=> (exec.made[j].status >= 200 /\ exec.made[j].status <= 299)
  /\ exec.result = "ok" => exec.made[Len(exec.made)].ok
  /\ exec.result = "fail" =>
       /\ 2 * Len(exec.made) >= MaxAttemptsHalves
       /\ \A j \in 1..Len(exec.made) : ~exec.made[j].ok
  /\ exec.pc = "idle" => exec.made = << >>

\* on the digest path a 404 answer was followed by a further attempt, which
\* got a 2xx answer and made the invocation succeed
C16_RetriedAfter404 ==
  /\ exec.result = "ok" /\ exec.authType = "digest"
  /\ \E j \in 1..Len(exec.made) : exec.made[j].status = 404

\* the URL configured for the action of a phase
ActionUrl(i, phase) ==
  IF phase = "day" THEN readConfig(settingsState[i], gstore).day.url
  ELSE readConfig(settingsState[i], gstore).night.url

NoUrl(u) == u = undefined \/ u = ""

\* C17: when the URL of the action for the requested phase is empty or unset,
\* invoke(phase) fails without making any network call and without any retry
\* attempt (no call of that phase is ever in flight or being attempted), and
\* the last recorded phase and the armed timers are left unchanged.
C17_NoUrlFailsFast ==
  /\ [] ( /\ exec.pc # "idle" => ~NoUrl(ActionUrl(exec.i, exec.call.phase))
          /\ \A i \in Inst : \A k \in 1..Len(inflight[i]) :
               ~NoUrl(ActionUrl(i, inflight[i][k].phase)) )
  /\ [][ ( ev'.op = "button" /\ NoUrl(ActionUrl(ev'.i, ev'.invoked[1].phase)) )
         => /\ inflight' = inflight /\ exec' = exec
            /\ timers' = timers
            /\ storage' = storage /\ settingsState' = settingsState ]_vars

\* the Day button was pressed with no day URL configured: nothing is in
\* flight and the four timers are still armed
C17_ButtonWithoutUrl ==
  /\ ev.op = "button" /\ NoUrl(ActionUrl(ev.i, ev.invoked[1].phase))
  /\ inflight[ev.i] = << >> /\ exec.pc = "idle"
  /\ Len(timers[ev.i]) = 4

\* the override flag of a category is on for instance i
FlagOn(i, flag) == settingsState[i][flag] = "true"

\* C18: for each of the three categories (location and time, offsets,
\* reliability), when the camera's override flag for the category is off,
\* every field of the category that readConfig produces equals the value
\* resolved from the global store, whatever entity-local value is stored for
\* it; when the flag is on, the entity-local value is used instead.
C18_OverrideSelectsSource ==
  \A i \in Inst : life[i] = "live" =>
    \E st \in {settingsState[i]} : \E c \in {readConfig(settingsState[i], gstore)} :
      /\ IF FlagOn(i, "overrideLocationAndTime")
         THEN /\ c.latitude = n(st, "latitude") /\ c.longitude = n(st, "longitude")
              /\ c.timeZone = st["timeZone"]
              /\ c.use24h = (st["use24h"] # "false")
              /\ c.syncOnStartup = (st["syncOnStartup"] # "false")
         ELSE /\ c.latitude = gNum(gstore, "latitude")
              /\ c.longitude = gNum(gstore, "longitude")
              /\ c.timeZone = gString(gstore, "timeZone")
              /\ c.use24h = (gstore["use24h"] # "false")
              /\ c.syncOnStartup = (gstore["syncOnStartup"] # "false")
      /\ IF FlagOn(i, "overrideOffsets")
         THEN /\ c.sunriseOffsetMins = OrElse(n(st, "sunriseOffsetMins"), 0)
              /\ c.sunsetOffsetMins = OrElse(n(st, "sunsetOffsetMins"), 0)
         ELSE /\ c.sunriseOffsetMins = OrElse(gNum(gstore, "sunriseOffsetMins"), 0)
              /\ c.sunsetOffsetMins = OrElse(gNum(gstore, "sunsetOffsetMins"), 0)
      /\ IF FlagOn(i, "overrideReliability")
         THEN /\ c.retries = OrElse(nHalves(st, "retries"), 2)
              /\ c.retryBaseDelayMs = OrElse(n(st, "retryBaseDelayMs"), 0)
              /\ c.logResponses = (st["logResponses"] = "true")
         ELSE /\ c.retries = OrElse(gNumHalves(gstore, "retries"), 2)
              /\ c.retryBaseDelayMs = OrElse(gNum(gstore, "retryBaseDelayMs"), 0)
              /\ c.logResponses = (gstore["logResponses"] = "true")

\* all three flags are off and the stored entity-local latitude, sunrise
\* offset and retry count differ from the global ones, which are used
C18_StaleLocalIgnored ==
  /\ life["i1"] = "live"
  /\ ~FlagOn("i1", "overrideLocationAndTime") /\ ~FlagOn("i1", "overrideOffsets")
  /\ ~FlagOn("i1", "overrideReliability")
  /\ n(settingsState["i1"], "latitude") # gNum(gstore, "latitude")
  /\ n(settingsState["i1"], "sunriseOffsetMins") # gNum(gstore, "sunriseOffsetMins")
  /\ nHalves(settingsState["i1"], "retries") # gNumHalves(gstore, "retries")
  /\ readConfig(settingsState["i1"], gstore).latitude = gNum(gstore, "latitude")

InRange(opt, lo, hi) == \A x \in opt : x >= lo /\ x <= hi

\* C19: in every configuration the resolver produces, a defined latitude
\* lies in [-90, 90], a defined longitude in [-180, 180] and each of the two
\* offsets in [-720, 720] minutes, whatever was submitted as a setting or was
\* already in the camera's or the global store when the camera was attached.
C19_ResolvedWithinRange ==
  \A i \in Inst : life[i] = "live" =>
    \E c \in {readConfig(settingsState[i], gstore)} :
      /\ InRange(c.latitude, -90, 90)
      /\ InRange(c.longitude, -180, 180)
      /\ InRange({c.sunriseOffsetMins}, -720, 720)
      /\ InRange({c.sunsetOffsetMins}, -720, 720)

\* a submitted latitude of 95 was stored as 90
C19_SubmittedClamped ==
  /\ ev.op = "putMixinSetting" /\ ev.kind = "latitude"
  /\ settingsState[ev.i]["latitude"] = "90"

\* the text is missing, empty (blank) or no number
NoNumber(v) == v = undefined \/ Trim(v) = "" \/ Number(v) = {}

\* the stored text the latitude (longitude) of instance i is resolved from
CoordSource(i, k) ==
  IF FlagOn(i, "overrideLocationAndTime") THEN settingsState[i][k] ELSE gstore[k]

\* C20: an empty, missing or non-numeric latitude or longitude (entity-local
\* when overridden, global otherwise) resolves to undefined and never to 0,
\* so that a reschedule ends in the Error outcome with no action timers
\* rather than scheduling for coordinate 0.
C20_BlankCoordinateUnset ==
  \A i \in Inst : life[i] = "live" =>
    \A k \in {"latitude", "longitude"} :
      NoNumber(CoordSource(i, k)) =>
        /\ readConfig(settingsState[i], gstore)[k] = {}
        /\ ( ev.i = i /\ ev.res.outcome # "none" /\ ev.res.c.enabled ) =>
             /\ ev.res.outcome = "error-location"
             /\ \A j \in 1..Len(timers[i]) :
                  timers[i][j].kind \notin {"sunrise", "sunset"}

\* a latitude that is no number was submitted and the reschedule ended in
\* the Error outcome
C20_NonNumericIsError ==
  /\ ev.op = "putMixinSetting" /\ ev.kind = "latitude"
  /\ settingsState[ev.i]["latitude"] = "north"
  /\ FlagOn(ev.i, "overrideLocationAndTime")
  /\ ev.res.outcome = "error-location"

\* C21: after a putSetting on a 'global.*' key every instance registered at
\* that moment is notified (its debounce is armed) and eventually runs a
\* reschedule that resolves its configuration from the global values then
\* stored; a putSetting whose key does not start with 'global.' changes no
\* stored value and notifies no instance.  The clock of the model stops at
\* MaxTicks, so the notifications considered leave room for the debounce.
C21_GlobalChangeReschedules ==
  /\ [][ ev'.op = "putSetting" =>
           IF IsGlobalKey(ev'.kind)
           THEN mixinsById # NoInst => globalsDebounce'[mixinsById] # {}
           ELSE gstore' = gstore /\ storage' = storage
                /\ globalsDebounce' = globalsDebounce ]_vars
  /\ \A i \in Inst :
       [] ( ( globalsDebounce[i] # {} /\ ticks < MaxTicks )
            => <> ( ev.op = "debounce" /\ ev.i = i /\ ev.res.outcome # "none"
                    /\ ev.res.c = readConfig(settingsState[i], gstore) ) )

\* the global latitude was emptied and the reschedule that followed the
\* notification resolved no latitude
C21_RescheduledFromNewGlobals ==
  /\ ev.op = "debounce" /\ gstore["latitude"] = ""
  /\ ev.res.c.latitude = {} /\ ev.res.outcome \in {"error-location", "disabled"}

\* notification number j ends a burst: none follows it within 300 ms
EndsBurst(j) ==
  IF j < Len(burst.notified) THEN burst.notified[j + 1] - burst.notified[j] >= 300
  ELSE burst.clock - burst.notified[j] >= 300 /\ burst.timer = {}

\* the reschedules that ran at instant t
RanAt(t) == { r \in 1..Len(burst.ran) : burst.ran[r] = t }

\* C22: a burst of global-change notifications to one instance, each less
\* than 300 ms after the one before, causes exactly one reschedule of it,
\* which runs 300 ms after the last notification of the burst; no reschedule
\* runs during the burst.
C22_OneRescheduleAfterBurst ==
  /\ \A j \in 1..Len(burst.notified) :
       EndsBurst(j) => Cardinality(RanAt(burst.notified[j] + 300)) = 1
  /\ \A r \in 1..Len(burst.ran) :
       \E j \in 1..Len(burst.notified) :
         /\ burst.ran[r] = burst.notified[j] + 300
         /\ j < Len(burst.notified) => burst.notified[j + 1] >= burst.ran[r]

\* three notifications 100 ms apart were followed by one reschedule
C22_BurstOfThree ==
  /\ Len(burst.notified) >= 3 /\ Len(burst.ran) = 1
  /\ burst.notified[2] - burst.notified[1] = 100
  /\ burst.notified[3] - burst.notified[2] = 100
  /\ burst.ran[1] = burst.notified[3] + 300

\* C23: after any sequence of getSunTimesCached lookups and cache clears the
\* sun-times cache holds at most 1000 entries.
C23_CacheBounded == Len(sunTimesCache) <= 1000

\* a lookup of a new key found 1000 entries and left 1000
C23_InsertedAtLimit ==
  /\ look.last.size = 1000 /\ ~look.last.present /\ look.last.calls = 1
  /\ Len(sunTimesCache) = 1000

\* C24: strict LRU.  A lookup miss that inserts into a cache of 1000 entries
\* evicts exactly one entry, the one whose last access (insertion or hit) is
\* the oldest; nothing else evicts; the entry just inserted is never the one
\* evicted; a hit refreshes the recency of its entry.
C24_StrictLRU ==
  /\ ( look.last.key # << >> /\ ~look.last.present /\ look.last.size = 1000 )
       => Cardinality(look.last.evicted) = 1
  /\ look.last.evicted # {} => ~look.last.present /\ look.last.size = 1000
  /\ look.last.key \notin look.last.evicted
  /\ Cardinality(look.last.evictedAt) = Cardinality(look.last.evicted)
  /\ \A j \in 1..Len(look.access) : \A e \in look.last.evictedAt :
       look.access[j].at > e
  /\ look.last.key # << >> =>
       /\ look.access # << >>
       /\ \A j \in 1..Len(look.access) :
            look.access[j].key = look.last.key <=> look.access[j].at = look.at
  /\ Len(look.access) = Len(sunTimesCache)
  /\ \A j \in 1..Len(sunTimesCache) : \A e \in look.last.evicted :
       sunTimesCache[j].key # e

\* the oldest entry was hit, and the next insertion evicted the second oldest
\* while the entry that was hit stays
C24_HitSpared ==
  /\ look.last.evicted = { sunKey(51, 0, 2 * DayTicks) }
  /\ \E j \in 1..Len(sunTimesCache) : sunTimesCache[j].key = sunKey(51, 0, DayTicks)

\* C25: while an entry for a key stays in the cache, a lookup with that key
\* returns the instants of the lookup that inserted it and does not call the
\* external solar function; a lookup miss calls that function exactly once
\* and stores its result.
C25_IdempotentPerKey ==
  look.last.key # << >> =>
    /\ look.last.calls = (IF look.last.present THEN 0 ELSE 1)
    /\ \E j \in 1..Len(look.first) :
         /\ look.first[j].key = look.last.key
         /\ look.first[j].value = look.last.times
    /\ \E j \in 1..Len(sunTimesCache) :
         /\ sunTimesCache[j].key = look.last.key
         /\ sunTimesCache[j].value = look.last.times

\* a key inserted by a lookup of this run was looked up again
C25_SecondLookupHit ==
  /\ look.last.present /\ look.last.calls = 0
  /\ look.last.key = sunKey(51, 0, (SUN_TIMES_CACHE_LIMIT + 1) * DayTicks)
\* C26: "switch to Day now" and "switch to Night now" invoke the executor for
\* that phase whether the camera is enabled or disabled (with a URL configured
\* the call is started), and pressing them arms no timer, cancels no timer,
\* triggers no reschedule and changes no setting; when a manual call ends,
\* nothing changes but the last recorded phase, and that only on success
C26_ManualFrame ==
  [][ /\ (ev'.op = "button" /\ ev'.kind \in {"__btn_day", "__btn_night"}) =>
           /\ timers' = timers
           /\ globalsDebounce' = globalsDebounce
           /\ settingsState' = settingsState
           /\ storage' = storage
           /\ sunTimesCache' = sunTimesCache
           /\ Len(ev'.invoked) = 1
           /\ ~NoUrl(ActionUrl(ev'.i, ev'.invoked[1].phase)) =>
                inflight'[ev'.i] = Append(inflight[ev'.i], ev'.invoked[1])
      /\ (ev'.op \in {"switched", "failed"} /\ ev'.kind = "manual") =>
           /\ timers' = timers
           /\ globalsDebounce' = globalsDebounce
           /\ sunTimesCache' = sunTimesCache
           /\ \A i \in Inst : \A k \in Keys \ {"lastPhase"} :
                settingsState'[i][k] = settingsState[i][k]
           /\ \A k \in Keys \ {"lastPhase"} : storage'[k] = storage[k]
           /\ ev'.op = "failed" =>
                settingsState' = settingsState /\ storage' = storage
           /\ ev'.op = "switched" =>
                settingsState'[ev'.i]["lastPhase"] = ev'.invoked[1].phase
    ]_vars

\* a disabled camera whose "switch to Night now" was pressed: its call runs
C26_ManualWhileDisabled ==
  /\ ev.op = "button" /\ ev.kind = "__btn_night"
  /\ settingsState[ev.i]["enabled"] # "true"
  /\ timers[ev.i] # << >>
  /\ \E k \in 1..Len(inflight[ev.i]) :
       inflight[ev.i][k] = [phase |-> "night", src |-> "manual"]

\* C27: "refresh preview" leaves the armed timers (of every kind, the debounce
\* included) and the last recorded phase as they were and starts no action
\* invocation, whatever the state of the camera; of the settings and the store
\* it changes the two preview texts only
C27_PreviewFrame ==
  [][ (ev'.op = "button" /\ ev'.kind = "__btn_preview") =>
        /\ timers' = timers
        /\ globalsDebounce' = globalsDebounce
        /\ inflight' = inflight
        /\ exec' = exec
        /\ ev'.invoked = << >>
        /\ \A i \in Inst : \A k \in Keys \ {"preview", "previewHtml"} :
             settingsState'[i][k] = settingsState[i][k]
        /\ \A k \in Keys \ {"preview", "previewHtml"} : storage'[k] = storage[k]
        /\ gstore' = gstore
    ]_vars

\* the preview of a scheduled camera with a recorded phase was refreshed: its
\* action timers are still armed and the preview names the two instants
C27_PreviewWhileScheduled ==
  /\ ev.op = "button" /\ ev.kind = "__btn_preview"
  /\ settingsState[ev.i]["enabled"] = "true"
  /\ settingsState[ev.i]["lastPhase"] = "night"
  /\ \E k \in 1..Len(timers[ev.i]) : timers[ev.i][k].kind = "sunrise"
  /\ \E k \in 1..Len(timers[ev.i]) : timers[ev.i][k].kind = "sunset"
  /\ settingsState[ev.i]["preview"] \notin
       { undefined, "-", "Switching is disabled", "Latitude/Longitude not set",
         "No sunrise/sunset today at this location" }

\* C28: the HTTP method of every request the executor sends is one of GET,
\* POST, PUT, PATCH and DELETE, whether the method configured was submitted as
\* a setting or was in the camera's store when it was attached
C28_MethodAllowed ==
  /\ exec.pc # "idle" => exec.method \in allowed
  /\ \A j \in 1..Len(exec.made) : exec.made[j].method \in allowed

\* a method outside the set was submitted as a setting, and the request of
\* the Day action that followed was a GET
C28_SubmittedInvalidSentAsGet ==
  /\ storage["day.method"] = "GET"
  /\ exec.pc = "body" /\ exec.call.phase = "day"
  /\ exec.method = "GET"
\* the pending recompute timers among the timers ts
Recalcs(ts) == { k \in 1..Len(ts) : ts[k].kind = "recalc" }

\* the step ran rescheduleAll on instance i
Rescheduled(i) == ev'.i = i /\ ev'.res.outcome # "none"

\* the step was putMixinSetting('enabled', false) on instance i: clearTimers()
DisabledByPut(i) ==
  /\ ev'.op = "putMixinSetting" /\ ev'.kind = "enabled" /\ ev'.i = i
  /\ settingsState'[i]["enabled"] = "false"
  /\ timers'[i] = << >>

\* the recompute timer of instance i stays pending over the step
RecalcKept(i) ==
  \A k \in Recalcs(timers[i]) :
    \E m \in Recalcs(timers'[i]) : timers'[i][m] = timers[i][k]

\* C29 (as the code has it): every run of rescheduleAll, whatever its outcome,
\* leaves exactly one recompute timer, armed by this run with a delay of 1 h
\* plus a jitter below 60 s (one or two ticks); no recompute timer is ever
\* overdue; when it fires the whole sun-times cache is cleared before
\* rescheduleAll runs again, so that the cache then holds this run's lookups
\* only; and the recompute timer of a live instance stays pending until a
\* rescheduleAll replaces it, unless putMixinSetting('enabled', false) cancels
\* the instance's timers
C29_RecomputeCycle ==
  /\ [] ( ev.res.outcome # "none" =>
            /\ Cardinality(Recalcs(timers[ev.i])) = 1
            /\ \A k \in Recalcs(timers[ev.i]) :
                 /\ timers[ev.i][k].armed = ev.res.at
                 /\ timers[ev.i][k].at - timers[ev.i][k].armed >= Ticks(3600000)
                 /\ timers[ev.i][k].at - timers[ev.i][k].armed <= Ticks(3600000 + 59999) )
  /\ [] ( \A i \in Inst : \A k \in Recalcs(timers[i]) : timers[i][k].at >= now )
  /\ [][ ev'.op = "timer" /\ ev'.kind = "recalc" =>
           /\ ev'.res.outcome # "none"
           /\ ev'.res.outcome \in {"disabled", "error-location"} =>
                sunTimesCache' = << >>
           /\ \A j \in 1..Len(sunTimesCache') :
                /\ sunTimesCache'[j].key[1] = The(ev'.res.c.latitude)
                /\ sunTimesCache'[j].key[2] = The(ev'.res.c.longitude)
                /\ sunTimesCache'[j].key[3] \in
                     {localDayKey(now), localDayKey(now) + 1} ]_vars
  /\ [][ \A i \in Inst :
           life[i] = "live" /\ life'[i] = "live" =>
             RecalcKept(i) \/ Rescheduled(i) \/ DisabledByPut(i) ]_vars

\* the recompute timer fired on a camera whose coordinates had been removed:
\* the cache was emptied, nothing was looked up, and the next recompute timer
\* is pending
C29_RecomputeFiredAndRearmed ==
  /\ ev.op = "timer" /\ ev.kind = "recalc"
  /\ ev.res.outcome \notin {"none", "scheduled"}
  /\ ev.res.c.enabled
  /\ sunTimesCache = << >>
  /\ Cardinality(Recalcs(timers[ev.i])) = 1

\* C29 as stated: a live instance that has been rescheduled is rescheduled
\* again within 1 h + 60 s of each reschedule: its recompute timer stays
\* pending until a rescheduleAll replaces it
C29_AlwaysRescheduledAgain ==
  [][ \A i \in Inst :
        life[i] = "live" /\ life'[i] = "live" /\ Recalcs(timers[i]) # {} =>
          Recalcs(timers'[i]) # {} \/ Rescheduled(i) ]_vars

\* the pending timers of the given kind among the timers ts
TimersOf(ts, kind) == { k \in 1..Len(ts) : ts[k].kind = kind }

\* C30: after every rescheduleAll on an enabled camera with valid coordinates
\* and a solar event today (the Scheduled outcome), exactly one sunrise-action
\* timer and exactly one sunset-action timer are armed, each for an instant
\* later than now
C30_TwoFutureTimers ==
  Scheduled =>
    \A kind \in {"sunrise", "sunset"} :
      /\ Cardinality(TimersOf(timers[ev.i], kind)) = 1
      /\ \A k \in TimersOf(timers[ev.i], kind) :
           /\ timers[ev.i][k].at > ev.res.at
           /\ timers[ev.i][k].target > ev.res.at

\* rescheduleAll ran before both of today's adjusted instants, and armed
\* the sunrise-action and the sunset-action timer for them
C30_BothArmedForToday ==
  /\ Scheduled
  /\ \E k \in TimersOf(timers[ev.i], "sunrise") :
       /\ timers[ev.i][k].target =
            The(ev.res.todayRaw.sunrise) + OffsetTicks(ev.res.c.sunriseOffsetMins)
       /\ timers[ev.i][k].target > ev.res.at
  /\ \E k \in TimersOf(timers[ev.i], "sunset") :
       /\ timers[ev.i][k].target =
            The(ev.res.todayRaw.sunset) + OffsetTicks(ev.res.c.sunsetOffsetMins)
       /\ timers[ev.i][k].target > ev.res.at

\* C31: a rescheduleAll that runs while the camera is disabled arms no
\* sunrise-action, sunset-action or guard timer (the recompute timer is all it
\* leaves), starts no action invocation, persists the "disabled" preview shown
\* in the settings, and stops
C31_DisabledRunStops ==
  [][ ev'.res.outcome = "disabled" =>
        /\ \A k \in 1..Len(timers'[ev'.i]) : timers'[ev'.i][k].kind = "recalc"
        /\ ev'.invoked = << >>
        /\ inflight' = inflight
        /\ ev'.res.nextSunrise = {} /\ ev'.res.nextSunset = {}
        /\ settingsState'[ev'.i]["previewHtml"] = "Switching is disabled."
        /\ storage'["previewHtml"] = "Switching is disabled."
        /\ sunTimesCache' = sunTimesCache \/ ev'.kind = "recalc"
    ]_vars

\* the debounced notification of a global change ran rescheduleAll on a
\* camera that is disabled and had no timer: only the recompute timer is armed
C31_DisabledRescheduled ==
  /\ ev.op = "debounce"
  /\ ev.res.outcome = "disabled"
  /\ settingsState[ev.i]["enabled"] # "true"
  /\ Len(timers[ev.i]) = 1
  /\ settingsState[ev.i]["previewHtml"] = "Switching is disabled."

\* the kinds of timer armed through scheduleAt
ScheduleAtKinds == {"sunrise", "sunset", "recalc"}

\* C32: no timer armed through scheduleAt has a delay above 24 hours: a
\* delay d = target - now is armed as min(24 h, d), and only when d > 0; the
\* instants the preview shows are the targets, not the clamped deadlines
C32_DelayClamped ==
  /\ \A i \in Inst : \A k \in 1..Len(timers[i]) :
       timers[i][k].kind \in ScheduleAtKinds =>
         /\ timers[i][k].target > timers[i][k].armed
         /\ timers[i][k].at - timers[i][k].armed <= Ticks(MAX_DELAY_MS)
         /\ timers[i][k].at - timers[i][k].armed =
              Min(Ticks(MAX_DELAY_MS), timers[i][k].target - timers[i][k].armed)
  /\ Scheduled =>
       /\ settingsState[ev.i]["preview"] =
            previewText(The(ev.res.nextSunrise), The(ev.res.nextSunset))
       /\ \A k \in 1..Len(timers[ev.i]) :
            /\ timers[ev.i][k].kind = "sunrise" =>
                 timers[ev.i][k].target = The(ev.res.nextSunrise)
            /\ timers[ev.i][k].kind = "sunset" =>
                 timers[ev.i][k].target = The(ev.res.nextSunset)

\* an action timer whose instant lies more than 24 hours ahead is armed for
\* 24 hours, and the preview names the instant itself
C32_ClampedTimerArmed ==
  /\ Scheduled
  /\ \E k \in 1..Len(timers[ev.i]) :
       /\ timers[ev.i][k].kind = "sunset"
       /\ timers[ev.i][k].target - timers[ev.i][k].armed > Ticks(MAX_DELAY_MS)
       /\ timers[ev.i][k].at = timers[ev.i][k].armed + Ticks(MAX_DELAY_MS)
       /\ settingsState[ev.i]["preview"] =
            previewText(The(ev.res.nextSunrise), timers[ev.i][k].target)

\* C33: a value returned by getSunTimesCached never aliases cached state:
\* whatever a caller does to the Dates it was returned, the Map keeps the
\* instants first computed for each key and every lookup, on the hit path and
\* on the miss path, returns them, in objects that are not those of the Map
C33_NoAliasing ==
  /\ \A j \in 1..Len(sunTimesCache) :
       sunTimesCache[j].value = EntryOf(dates.first, sunTimesCache[j].key).value
  /\ \A j \in 1..Len(dates.held) :
       /\ dates.held[j].got = EntryOf(dates.first, dates.held[j].key).value
       /\ \A k \in 1..Len(dates.cached) :
            {dates.held[j].sunrise, dates.held[j].sunset}
              \cap {dates.cached[k].sunrise, dates.cached[k].sunset} = {}

\* a caller changed the Dates returned for one key by a miss and by a hit, and
\* the lookup of that key that followed returned the instants first computed
C33_LookupAfterMutation ==
  /\ dates.held # << >>
  /\ {<<dates.held[1].key, "miss">>, <<dates.held[1].key, "hit">>} \subseteq dates.mutated
  /\ dates.heap[dates.held[1].sunrise] = dates.held[1].got.sunrise
  /\ dates.heap[dates.held[1].sunset] = dates.held[1].got.sunset
  /\ dates.held[1].got = SunCalcGetTimes(8, 51, 0)

\* the pc that follows pc in a rescheduleAll call
NextPc(pc) ==
  CASE pc = "cleared" -> "base" [] pc = "base" -> "armed" [] pc = "armed" -> "idle"
    [] OTHER -> "cleared"

\* the step arms a timer of instance i: a pending timer that was not pending
ArmsTimer(i) ==
  \/ \E k \in 1..Len(timers'[i]) :
       \A m \in 1..Len(timers[i]) : timers'[i][k] # timers[i][m]
  \/ globalsDebounce'[i] # {} /\ globalsDebounce'[i] # globalsDebounce[i]

\* the step is one of a rescheduleAll call of instance i
ReschedStep(i) ==
  \/ ev'.op = "rescheduleAll" /\ ev'.i = i
  \/ ev'.res.outcome # "none" /\ ev'.i = i

\* C34 (as the code has it): two reschedules of one camera never overlap:
\* from its timer cancellation to its return every step taken is the next
\* step of that rescheduleAll call, so no other reschedule, timer callback or
\* setting change runs in between; and a timer of the camera is armed by
\* rescheduleAll, by an action timer callback (its settle timer) or by
\* notifyGlobalsChanged (the debounce timer), and by nothing else
C34_RescheduleAtomic ==
  /\ [][ stepped.pc # "idle" =>
           /\ stepped'.pc = NextPc(stepped.pc)
           /\ stepped'.pc # "idle" => stepped'.i = stepped.i /\ stepped'.R = stepped.R
           /\ ev'.i = stepped.i
       ]_vars
  /\ [][ \A i \in Inst :
           ArmsTimer(i) =>
             \/ ReschedStep(i)
             \/ /\ ev'.op = "timer" /\ ev'.kind \in {"sunrise", "sunset"} /\ ev'.i = i
                /\ \A k \in 1..Len(timers'[i]) :
                     (\A m \in 1..Len(timers[i]) : timers'[i][k] # timers[i][m]) =>
                       timers'[i][k].kind = "settle"
             \/ /\ ev'.op = "putSetting" /\ timers'[i] = timers[i] ]_vars

\* a rescheduleAll call followed statement by statement ended Scheduled while
\* a global change was waiting for its debounce: nothing ran in between
C34_SteppedRescheduleEnded ==
  /\ ev.op = "timer" /\ ev.kind = "recalc" /\ Scheduled
  /\ stepped.pc = "idle" /\ stepped.i = ev.i /\ stepped.kind = "recalc"
  /\ globalsDebounce[ev.i] # {}
  /\ { timers[ev.i][k].kind : k \in 1..Len(timers[ev.i]) } =
       {"recalc", "guard", "sunrise", "sunset"}

\* C34 as stated: the reschedule routine is the only operation that arms
\* timers for the camera
C34_OnlyRescheduleArms ==
  [][ \A i \in Inst : ArmsTimer(i) => ReschedStep(i) ]_vars
\* C35: a timer-driven action invocation never starts before the adjusted
\* instant its action timer was armed for: an action timer that is due has
\* reached its target, so a timer clamped to 24 hours has been cancelled and
\* re-armed by a reschedule before its clamped deadline
C35_NeverBeforeInstant ==
  /\ [] ( \A i \in Inst : \A k \in 1..Len(timers[i]) :
            ( /\ timers[i][k].kind \in {"sunrise", "sunset"}
              /\ timers[i][k].at <= now ) => timers[i][k].target <= now )
  /\ [][ ev'.op = "timer" /\ ev'.kind \in {"sunrise", "sunset"} =>
           \E k \in 1..Len(timers[ev'.i]) :
             /\ timers[ev'.i][k].kind = ev'.kind
             /\ timers[ev'.i][k].target = now
             /\ timers[ev'.i][k].at = now ]_vars

\* the recompute timer fired and re-armed, for its instant, the sunset timer
\* that the attach had armed clamped to 24 hours
C35_RearmedAfterClamp ==
  /\ ev.op = "timer" /\ ev.kind = "recalc" /\ Scheduled
  /\ localDayKey(now) = localDayKey(now - ticks)
  /\ \E k \in 1..Len(timers[ev.i]) :
       /\ timers[ev.i][k].kind = "sunset"
       /\ timers[ev.i][k].armed = now
       /\ timers[ev.i][k].at = timers[ev.i][k].target
       /\ timers[ev.i][k].target - (now - ticks) > Ticks(MAX_DELAY_MS)

\* C36: for one camera at most one invocation of the executor is in flight
\* at any time: the sync check of a reschedule, an action timer or a manual
\* trigger starts no invocation while an earlier one of the camera has not
\* ended
C36_OneInFlight == \A i \in Inst : Len(inflight[i]) <= 1

\* an invocation started when none was in flight, and is the only one
C36_StartedAlone ==
  /\ ev.op = "button" /\ ev.kind = "__btn_night"
  /\ inflight[ev.i] = << [phase |-> "night", src |-> "manual"] >>

\* C37: whenever no invocation of a camera is in flight, its recorded last
\* phase is the phase of the last request the target answered 2xx
C37_RecordIsLastAccepted ==
  \A i \in Inst :
    (life[i] = "live" /\ inflight[i] = << >> /\ accepted[i] # "")
      => storage["lastPhase"] = accepted[i]

\* two invocations ran one after the other, and the record names the second
C37_RecordedInTurn ==
  /\ ev.op = "switched" /\ ev.invoked = << [phase |-> "day", src |-> "manual"] >>
  /\ inflight["i1"] = << >>
  /\ accepted["i1"] = "day" /\ storage["lastPhase"] = "day"
  /\ ops >= 2

\* C38: at most one scheduler instance of the camera holds armed timers, and
\* an instance that was released (replaced by getMixin, or by releaseMixin)
\* holds none and has no reschedule pending
C38_OneInstanceArmed ==
  /\ Cardinality({ i \in Inst : timers[i] # << >> }) <= 1
  /\ \A i \in Inst : life[i] = "released" => timers[i] = << >>

\* the second instance replaced the first: it is registered and holds the
\* timers, the first holds none
C38_Replaced ==
  /\ mixinsById = "i2" /\ life["i1"] = "released" /\ life["i2"] = "live"
  /\ timers["i1"] = << >> /\ timers["i2"] # << >>
  /\ ev.op = "getMixinResume"
====
